---- MODULE Spec2Model ----
(***************************************************************************)
(* Model of the QAQC batch pipeline of market_share_report:                *)
(*   - the status / formatting helpers of qaqc_vendor_data.py and          *)
(*     qaqc_computed_data.py (pure functions, SpecFn),                     *)
(*   - the SPU same-month metric check (SpecSameMonth),                    *)
(*   - the vendor-data stage run_qaqc_vendor_data (SpecVendor),            *)
(*   - the computed-data stage run_qaqc (SpecComputed),                    *)
(*   - the country x platform check (SpecCountryPlatform),                 *)
(*   - the normalizer normalize_raw_vendor_data (SpecNormalize),           *)
(*   - the driver run_qaqc_pipeline (SpecPipeline),                        *)
(*   - the stages as readers and writers of files (SpecStages),            *)
(*   - the decision summary build_decision_summary (SpecDecision),         *)
(*   - the chunked scans of the stages (SpecChunked),                      *)
(*   - the temporary stores of the rollups (SpecTmpStore),                 *)
(*   - the pairwise trend builders on their own (SpecPairwise).            *)
(*                                                                         *)
(* Floating point values are modelled as records [k, n, d]: k = "num" is   *)
(* the rational n/d (d > 0); k = "nan", "inf", "-inf" are the IEEE special *)
(* values and k = "none" is a missing value (None / pd.NA).                *)
(* Strings that are built by the program (formatted percentages) are       *)
(* sequences of one-character strings.                                     *)
(***************************************************************************)
EXTENDS Integers, Sequences, FiniteSets, TLC

VARIABLES
    call,        \* SpecFn: the last helper call [fn, args, ret]
    canon,       \* SpecSameMonth: rows of the canonical table normalized_raw_vendor_data
    smPhase,     \* SpecSameMonth: "input" | "done"
    smCfg,       \* SpecSameMonth: thresholds["spu_metric"]["same_month"] as loaded by the run
    smOut,       \* SpecSameMonth: metric_same_month_result.csv: [exists, rows]
    raw,         \* SpecVendor: rows of the raw vendor CSV files
    vPhase,      \* SpecVendor: "input" | "done" | "error"
    vOut,        \* SpecVendor: the result CSV files of run_qaqc_vendor_data
    computed,    \* SpecComputed: the computed CSV files (a sequence of files, each a sequence of rows)
    cPhase,      \* SpecComputed: "input" | "done" | "error"
    cOut,        \* SpecComputed: the result CSV files of run_qaqc
    cpSeller,    \* SpecCountryPlatform: check_seller_level.csv: [exists, rows]
    cpCategory,  \* SpecCountryPlatform: check_category_url_level.csv: [exists, rows]
    cpCategoryColumns, \* SpecCountryPlatform: the column names of check_category_url_level.csv
    cpPhase,     \* SpecCountryPlatform: "input" | "done" | "error"
    cpOut,       \* SpecCountryPlatform: check_country_platform_level.csv: [exists, rows]
    rawDir,      \* SpecNormalize: data/raw_vendor_data: [isdir, files]
    computedDir, \* SpecNormalize: data/computed_data: [isdir, files]
    normDb,      \* SpecNormalize: normalized_raw_vendor_data.sqlite: [exists, has_table, rows]
    normManifest,\* SpecNormalize: _run_manifest.txt exists
    normLog,     \* SpecNormalize: the outcome of every run of normalize_raw_vendor_data so far
    normLastInputs, \* SpecNormalize: the two input directories as the latest run found them
    resultFiles, \* SpecPipeline: the result CSVs (keys of FILES) that exist
    pipeState,   \* SpecPipeline: "idle" | "finished" | "raised"
    pipeLog,     \* SpecPipeline: what run_qaqc_pipeline has printed: [tag, step]
    report,      \* SpecPipeline: the sheets of market_share_qaqc_report.xlsx
    stStore,     \* SpecStages: normalized_raw_vendor_data.sqlite: "absent" | "empty" | "ok"
    stFiles,     \* SpecStages: the CSV files the stages read and write: name -> [exists, run]
    stLast,      \* SpecStages: the latest stage run: [stage, run, outcome, missing]
    dsFiles,     \* SpecDecision: the result CSVs under result/: key of FILES -> [exists, rows]
    dsPhase,     \* SpecDecision: "idle" | "done" | "error"
    dsOut,       \* SpecDecision: the rows of qaqc_decision_summary.csv
    tmpDb,       \* SpecTmpStore: the TMP_DB file of the builder: [exists, table, spu_status]
    tmpRun       \* SpecTmpStore: the latest run of the builder: [which, state, rows, spu_status, next, stale, ret]

fnVars       == <<call>>
smVars       == <<canon, smPhase, smCfg, smOut>>
vendorVars   == <<raw, vPhase, vOut>>
computedVars == <<computed, cPhase, cOut>>
cpVars       == <<cpSeller, cpCategory, cpCategoryColumns, cpPhase, cpOut>>
normVars     == <<rawDir, computedDir, normDb, normManifest, normLog, normLastInputs>>
pipeVars     == <<resultFiles, pipeState, pipeLog, report>>
stageVars    == <<stStore, stFiles, stLast>>
decisionVars == <<dsFiles, dsPhase, dsOut>>
tmpVars      == <<tmpDb, tmpRun>>
extVars      == <<cpVars, normVars, pipeVars, stageVars, decisionVars, tmpVars>>
vars         == <<fnVars, smVars, vendorVars, computedVars, extVars>>

(***************************************************************************)
(* Numbers                                                                 *)
(***************************************************************************)
Num(n, d) == [k |-> "num", n |-> n, d |-> d]
NaN       == [k |-> "nan", n |-> 0, d |-> 1]
PosInf    == [k |-> "inf", n |-> 0, d |-> 1]
NegInf    == [k |-> "-inf", n |-> 0, d |-> 1]
NoneV     == [k |-> "none", n |-> 0, d |-> 1]

Abs(x) == IF x < 0 THEN -x ELSE x

\* pd.isna(v): NaN, None and pd.NA are missing
IsNa(v)  == v.k \in {"nan", "none"}
\* np.isinf(v)
IsInf(v) == v.k \in {"inf", "-inf"}

\* v >= a/b and v < a/b as Python evaluates them on floats (b > 0):
\* every comparison with NaN is False
RatGE(v, a, b) ==
    CASE v.k = "num"  -> v.n * b >= a * v.d
      [] v.k = "inf"  -> TRUE
      [] OTHER        -> FALSE

RatLT(v, a, b) ==
    CASE v.k = "num"  -> v.n * b < a * v.d
      [] v.k = "-inf" -> TRUE
      [] OTHER        -> FALSE

\* a / b on floats that hold integers a and the rational b (b # 0): the quotient, sign in the numerator
DivIntByRat(a, b) ==
    IF b.n > 0 THEN Num(a * b.d, b.n) ELSE Num(-(a * b.d), -b.n)

\* the thresholds, in percent (2.00 = 200, 0.80 = 80)
ABNORMAL_INCREASE_THRESHOLD == 200
SELLER_DROP_THRESHOLD == 80
TREND_INCREASE_THRESHOLD == 200
TREND_DROP_THRESHOLD == 80
MIN_MONTHS_OBSERVED_FOR_TREND == 2

(***************************************************************************)
(* qaqc_vendor_data.py: safe_ratio, classify_pairwise_status,              *)
(* classify_trend_status                                                   *)
(***************************************************************************)
safe_ratio(num, den) ==
    IF den = 0 THEN NaN
    ELSE IF den > 0 THEN Num(num, den) ELSE Num(-num, -den)

\* variant: the ratio rules are tried before the new / missing rules
classify_pairwise_status_ratio_first(prev_val, latest_val, ratio) ==
    IF IsNa(ratio) THEN "no-baseline"
    ELSE IF RatGE(ratio, ABNORMAL_INCREASE_THRESHOLD, 100) THEN "abnormal-increase"
    ELSE IF RatLT(ratio, SELLER_DROP_THRESHOLD, 100) THEN "abnormal-drop"
    ELSE IF prev_val = 0 /\ latest_val > 0 THEN "new-in-latest"
    ELSE IF prev_val > 0 /\ latest_val = 0 THEN "missing-in-latest"
    ELSE "normal"

classify_pairwise_status(prev_val, latest_val, ratio) ==
    IF prev_val = 0 /\ latest_val > 0 THEN "new-in-latest"
    ELSE IF prev_val > 0 /\ latest_val = 0 THEN "missing-in-latest"
    ELSE IF IsNa(ratio) THEN "no-baseline"
    ELSE IF RatGE(ratio, ABNORMAL_INCREASE_THRESHOLD, 100) THEN "abnormal-increase"
    ELSE IF RatLT(ratio, SELLER_DROP_THRESHOLD, 100) THEN "abnormal-drop"
    ELSE "normal"

\* variant: the ratio is judged before the number of baseline months
classify_trend_status_ratio_first(months_observed, latest_spu, median_spu) ==
    IF median_spu.n = 0 THEN "no-baseline"
    ELSE LET ratio == DivIntByRat(latest_spu, median_spu) IN
         IF RatGE(ratio, ABNORMAL_INCREASE_THRESHOLD, 100) THEN "abnormal-increase"
         ELSE IF RatLT(ratio, SELLER_DROP_THRESHOLD, 100) THEN "abnormal-drop"
         ELSE IF months_observed < 2 THEN "insufficient-history"
         ELSE "normal"

\* vendor version; median_spu is a rational (the median of an even number of counts)
classify_trend_status(months_observed, latest_spu, median_spu) ==
    IF months_observed < 2 THEN "insufficient-history"
    ELSE IF median_spu.n = 0 THEN "no-baseline"
    ELSE LET ratio == DivIntByRat(latest_spu, median_spu) IN
         IF RatGE(ratio, ABNORMAL_INCREASE_THRESHOLD, 100) THEN "abnormal-increase"
         ELSE IF RatLT(ratio, SELLER_DROP_THRESHOLD, 100) THEN "abnormal-drop"
         ELSE "normal"

(***************************************************************************)
(* qaqc_computed_data.py: classify_trend_status                            *)
(***************************************************************************)
classify_trend_status_computed(months_observed, ratio) ==
    IF months_observed < MIN_MONTHS_OBSERVED_FOR_TREND THEN "insufficient-history"
    ELSE IF IsNa(ratio) \/ IsInf(ratio) THEN "no-baseline"
    ELSE IF RatGE(ratio, TREND_INCREASE_THRESHOLD, 100) THEN "abnormal-increase"
    ELSE IF RatLT(ratio, TREND_DROP_THRESHOLD, 100) THEN "abnormal-drop"
    ELSE "normal"

(***************************************************************************)
(* Percentage formatting                                                   *)
(***************************************************************************)
DigitChar(d) ==
    CASE d = 0 -> "0" [] d = 1 -> "1" [] d = 2 -> "2" [] d = 3 -> "3" [] d = 4 -> "4"
      [] d = 5 -> "5" [] d = 6 -> "6" [] d = 7 -> "7" [] d = 8 -> "8" [] d = 9 -> "9"

RECURSIVE IntDigits(_)
\* the decimal digits of n >= 0
IntDigits(n) == IF n < 10 THEN <<DigitChar(n)>> ELSE IntDigits(n \div 10) \o <<DigitChar(n % 10)>>

\* round(n/d * 100, 2) in hundredths, n >= 0: round half to even
RoundHundredths(n, d) ==
    LET q == (n * 10000) \div d
        r == (n * 10000) % d
    IN  IF 2 * r > d THEN q + 1
        ELSE IF 2 * r < d THEN q
        ELSE IF q % 2 = 0 THEN q ELSE q + 1

\* str(x) of the float x = h/100 (sign given apart: -0.0 prints its sign): the
\* shortest representation, which keeps one digit after the point at least and
\* drops a trailing zero
FloatStr(neg, h) ==
    LET ip == h \div 100
        fp == h % 100
        frac == IF fp % 10 = 0 THEN <<DigitChar(fp \div 10)>>
                ELSE <<DigitChar(fp \div 10), DigitChar(fp % 10)>>
    IN  (IF neg THEN <<"-">> ELSE <<>>) \o IntDigits(ip) \o <<".">> \o frac

\* str(round(v * 100, 2)) of a finite v
PctStr(v) == FloatStr(v.n < 0, RoundHundredths(Abs(v.n), v.d))

\* variant: the placeholder gets the percent sign too
format_percent_ratio_dash_pct(v) ==
    (IF IsNa(v) \/ IsInf(v) THEN <<"-">> ELSE PctStr(v)) \o <<"%">>

\* qaqc_vendor_data.py
format_percent_ratio(v) ==
    IF IsNa(v) \/ IsInf(v) THEN <<"-">>
    ELSE PctStr(v) \o <<"%">>

\* pct.astype("string") of one element
AsString(v) ==
    CASE v.k = "num"  -> PctStr(v)
      [] v.k = "inf"  -> <<"i", "n", "f">>
      [] v.k = "-inf" -> <<"-", "i", "n", "f">>
      [] OTHER        -> <<"<NA>">>

\* qaqc_computed_data.py, one element of the series: pd.to_numeric turns a
\* missing value into NaN; invalid elements become "-"; "%" is appended to
\* every element that is not "-"
format_percent_elem(v) ==
    LET s       == IF v.k = "none" THEN NaN ELSE v
        invalid == IsNa(s) \/ IsInf(s)
        out1    == AsString(s)
        out2    == IF ~invalid THEN out1 ELSE <<"-">>
    IN  IF out2 = <<"-">> THEN out2 ELSE out2 \o <<"%">>

format_percent_series(series) == [i \in DOMAIN series |-> format_percent_elem(series[i])]

(***************************************************************************)
(* SpecFn: the helpers applied to inputs drawn from bounded sets; one call  *)
(* per behaviour (the helpers keep no state)                               *)
(***************************************************************************)
MaxSeriesLen == 2

CountVals   == {0, 1, 2, 5, 10}
RatioNums   == {-1, 0, 1, 2, 3, 4, 5}
RatioDens   == {1, 2, 3, 4, 8, 32}
FiniteVals  == {Num(n, d) : n \in RatioNums, d \in RatioDens}
SpecialVals == {NaN, PosInf, NegInf, NoneV}
RatioVals   == FiniteVals \cup SpecialVals
MedianVals  == {Num(n, d) : n \in {0, 1, 3, 5, 40, 80}, d \in {1, 2}}
MonthsObservedVals == 0 .. 3
SeriesVals  == {Num(1, 2), Num(1, 3), Num(-1, 8), Num(2, 1), NaN, PosInf, NegInf, NoneV}

RECURSIVE SeqsUpTo(_, _)
\* the sequences over S of length 1 .. n
SeqsUpTo(S, n) ==
    IF n = 0 THEN {}
    ELSE {<<x>> : x \in S} \cup
         {s \o <<x>> : s \in SeqsUpTo(S, n - 1), x \in S}

NoCall == [fn |-> "none", args |-> <<>>, ret |-> ""]

OtherThanFn == UNCHANGED <<smVars, vendorVars, computedVars, extVars>>

CallClassifyPairwise ==
    /\ call = NoCall
    /\ \E p \in CountVals, l \in CountVals, r \in RatioVals :
          call' = [fn |-> "classify_pairwise_status", args |-> <<p, l, r>>,
                   ret |-> classify_pairwise_status(p, l, r)]
    /\ OtherThanFn

\* the vendor builders fill missing values with 0 before the call (fillna(0)),
\* so latest_spu and median_spu are never NaN here
CallClassifyTrendVendor ==
    /\ call = NoCall
    /\ \E m \in MonthsObservedVals, l \in CountVals, med \in MedianVals :
          call' = [fn |-> "classify_trend_status", args |-> <<m, l, med>>,
                   ret |-> classify_trend_status(m, l, med)]
    /\ OtherThanFn

CallClassifyTrendComputed ==
    /\ call = NoCall
    /\ \E m \in MonthsObservedVals, r \in RatioVals \ {NoneV} :
          call' = [fn |-> "classify_trend_status_computed", args |-> <<m, r>>,
                   ret |-> classify_trend_status_computed(m, r)]
    /\ OtherThanFn

CallFormatPercentRatio ==
    /\ call = NoCall
    /\ \E v \in RatioVals :
          call' = [fn |-> "format_percent_ratio", args |-> <<v>>,
                   ret |-> format_percent_ratio(v)]
    /\ OtherThanFn

CallFormatPercentSeries ==
    /\ call = NoCall
    /\ \E s \in SeqsUpTo(SeriesVals, MaxSeriesLen) :
          call' = [fn |-> "format_percent_series", args |-> <<s>>,
                   ret |-> format_percent_series(s)]
    /\ OtherThanFn

NextFn ==
    \/ CallClassifyPairwise
    \/ CallClassifyTrendVendor
    \/ CallClassifyTrendComputed
    \/ CallFormatPercentRatio
    \/ CallFormatPercentSeries

(***************************************************************************)
(* src/spu_level/check_metric_same_month.py                                *)
(*                                                                         *)
(* A canonical row is [spu_used_id, month, vendor_group, asp,              *)
(* historical_quantity, historical_rating]; a metric is NoneV (SQL NULL)    *)
(* or Num(n, 1).  The normalizer never stores a NULL spu_used_id or month   *)
(* (dropna) nor a NULL vendor_group (astype(str) / the SINGLE_SOURCE        *)
(* sentinel), so the rows drawn below carry none.                          *)
(***************************************************************************)
METRICS == {"asp", "historical_quantity", "historical_rating"}

MaxCanonRows == 2

SmSpus    == {"p1", "p2"}
SmMonths  == {"2024-01"}
SmVendors == {"v1", "v2"}
SqlNull   == "<NULL>"
CanonRowDomain ==
    [spu_used_id : SmSpus, month : SmMonths, vendor_group : SmVendors,
     asp : {NoneV, Num(0, 1), Num(10, 1), Num(40, 1)},
     historical_quantity : {Num(10, 1), Num(40, 1)},
     historical_rating : {Num(4, 1), Num(5, 1)}]

\* two settings of config/benchmark_thresholds.yaml, spu_metric.same_month:
\* a [min_pct, max_pct] band per metric
SmConfigs ==
    { [asp |-> [min_pct |-> 100, max_pct |-> 150],
       historical_quantity |-> [min_pct |-> 100, max_pct |-> 300],
       historical_rating |-> [min_pct |-> 100, max_pct |-> 120]],
      [asp |-> [min_pct |-> 100, max_pct |-> 500],
       historical_quantity |-> [min_pct |-> 100, max_pct |-> 200],
       historical_rating |-> [min_pct |-> 100, max_pct |-> 130]] }

NoFile == [exists |-> FALSE, rows |-> {}]

MinOf(S) == CHOOSE x \in S : \A y \in S : x <= y
MaxOf(S) == CHOOSE x \in S : \A y \in S : x >= y

\* tmp_same_month_vendor_cnt: one row per (spu_used_id, month) that has a row
\* with a non-NULL vendor_group, with COUNT(DISTINCT vendor_group)
_build_vendor_cnt(rows) ==
    LET nn == {r \in rows : r.vendor_group # SqlNull} IN
    { [spu_used_id |-> g[1], month |-> g[2],
       vendor_group_count |->
           Cardinality({r.vendor_group : r \in {x \in nn : x.spu_used_id = g[1] /\ x.month = g[2]}})]
      : g \in {<<r.spu_used_id, r.month>> : r \in nn} }

\* tmp_same_month_<metric>: MIN and MAX of the metric over the rows of the
\* group where it is not NULL; no row for a group without such a row
MetricOf(r, metric) ==
    CASE metric = "asp" -> r.asp
      [] metric = "historical_quantity" -> r.historical_quantity
      [] metric = "historical_rating" -> r.historical_rating

_build_metric_table(rows, metric) ==
    LET nn == {r \in rows : MetricOf(r, metric).k = "num"} IN
    { [spu_used_id |-> g[1], month |-> g[2],
       min_v |-> MinOf({MetricOf(r, metric).n : r \in {x \in nn : x.spu_used_id = g[1] /\ x.month = g[2]}}),
       max_v |-> MaxOf({MetricOf(r, metric).n : r \in {x \in nn : x.spu_used_id = g[1] /\ x.month = g[2]}})]
      : g \in {<<r.spu_used_id, r.month>> : r \in nn} }

\* variant: the scan keeps every group of the vendor count table
_scan_filter_all(v) == TRUE

\* _build_scan_query: WHERE v.vendor_group_count >= 2
_scan_filter(v) == v.vendor_group_count >= 2

\* variant: a group whose minimum is <= 0 is not skipped
_check_metric_no_skip(v, rows, metric, cfg) ==
    LET m == {t \in _build_metric_table(rows, metric) :
                 t.spu_used_id = v.spu_used_id /\ t.month = v.month}
    IN  IF m = {} THEN {}
        ELSE LET t == CHOOSE x \in m : TRUE
                 mcfg == cfg[metric]
             IN  IF t.min_v > 0 /\ mcfg.min_pct * t.min_v <= t.max_v * 100
                               /\ t.max_v * 100 <= mcfg.max_pct * t.min_v
                 THEN {}
                 ELSE {[spu_used_id |-> v.spu_used_id, month |-> v.month,
                        metric_name |-> metric,
                        vendor_group_count |-> v.vendor_group_count,
                        ratio_pct |-> IF t.min_v = 0 THEN PosInf ELSE Num(t.max_v * 100, t.min_v),
                        check_result |-> "fail"]}

\* the rows the scan loop appends for one scanned group and one metric
\* (LEFT JOIN: a group without a row in the metric table has NULL min / max)
_check_metric(v, rows, metric, cfg) ==
    LET m == {t \in _build_metric_table(rows, metric) :
                 t.spu_used_id = v.spu_used_id /\ t.month = v.month}
    IN  IF m = {} THEN {}
        ELSE LET t == CHOOSE x \in m : TRUE
                 mcfg == cfg[metric]
             IN  IF t.min_v <= 0 THEN {}
                 ELSE IF mcfg.min_pct * t.min_v <= t.max_v * 100 /\ t.max_v * 100 <= mcfg.max_pct * t.min_v
                      THEN {}
                      ELSE {[spu_used_id |-> v.spu_used_id, month |-> v.month,
                             metric_name |-> metric,
                             vendor_group_count |-> v.vendor_group_count,
                             ratio_pct |-> Num(t.max_v * 100, t.min_v),
                             check_result |-> "fail"]}

SameMonthRows(rows, cfg) ==
    UNION { _check_metric(v, rows, metric, cfg) :
            v \in {x \in _build_vendor_cnt(rows) : _scan_filter(x)}, metric \in METRICS }

\* the normalizer creates the canonical store and appends a row
AddCanonRow ==
    /\ smPhase = "input"
    /\ Cardinality(canon.rows) < MaxCanonRows
    /\ \E r \in CanonRowDomain \ canon.rows :
          canon' = [exists |-> TRUE, rows |-> canon.rows \cup {r}]
    /\ UNCHANGED <<smPhase, smCfg, smOut, fnVars, vendorVars, computedVars, extVars>>

\* run_spu_metric_same_month_checks: the prior output is removed; without the
\* canonical store the run returns; the output file is removed again when no
\* row was written
run_spu_metric_same_month_checks ==
    /\ smPhase = "input"
    /\ \E cfg \in SmConfigs :
          /\ smCfg' = cfg
          /\ IF ~canon.exists THEN smOut' = NoFile
             ELSE LET rows == SameMonthRows(canon.rows, cfg) IN
                  smOut' = IF rows = {} THEN NoFile ELSE [exists |-> TRUE, rows |-> rows]
    /\ smPhase' = "done"
    /\ UNCHANGED <<canon, fnVars, vendorVars, computedVars, extVars>>

NextSameMonth ==
    \/ AddCanonRow
    \/ run_spu_metric_same_month_checks

(***************************************************************************)
(* Months: "YYYY-MM" strings, parsed to [y, m]; NaT for what does not parse *)
(***************************************************************************)
NaT == [y |-> 0, m |-> 0]

\* pd.to_datetime(s, format="%Y-%m", errors="coerce"); %m matches a month
\* of one digit as well, so "2024-2" is February 2024
ParseMonth(s) ==
    CASE s = "2023-09" -> [y |-> 2023, m |-> 9]
      [] s = "2023-10" -> [y |-> 2023, m |-> 10]
      [] s = "2023-11" -> [y |-> 2023, m |-> 11]
      [] s = "2023-12" -> [y |-> 2023, m |-> 12]
      [] s = "2024-01" -> [y |-> 2024, m |-> 1]
      [] s = "2024-02" -> [y |-> 2024, m |-> 2]
      [] s = "2024-2"  -> [y |-> 2024, m |-> 2]
      [] OTHER         -> NaT

MonthStrings == {"2023-09", "2023-10", "2023-11", "2023-12", "2024-01", "2024-02"}

\* dt.strftime("%Y-%m")
FormatMonth(dt) == CHOOSE s \in MonthStrings : ParseMonth(s) = dt

\* dt - n months (pd.offsets.MonthBegin(1) on a month start, pd.DateOffset(months=n))
RECURSIVE MinusMonths(_, _)
MinusMonths(dt, n) ==
    IF n = 0 THEN dt
    ELSE MinusMonths(IF dt.m = 1 THEN [y |-> dt.y - 1, m |-> 12] ELSE [y |-> dt.y, m |-> dt.m - 1], n - 1)

MonthLE(a, b) == a.y * 12 + a.m <= b.y * 12 + b.m
MonthLT(a, b) == a.y * 12 + a.m < b.y * 12 + b.m

\* sorted(m.dropna().unique())[-1]
LatestOf(dts) == CHOOSE x \in dts : \A y \in dts : MonthLE(y, x)

LOOKBACK_MONTHS == 3

\* month_window: (start_dt, latest_dt)
month_window(latest_month, lookback_months) ==
    [start_dt |-> MinusMonths(ParseMonth(latest_month), lookback_months),
     latest_dt |-> ParseMonth(latest_month)]

InWindow(month, w) ==
    LET dt == ParseMonth(month) IN
    dt # NaT /\ MonthLE(dt, w.latest_dt) /\ MonthLT(w.start_dt, dt)

(***************************************************************************)
(* Statistics over groups                                                  *)
(***************************************************************************)
RECURSIVE SortedVals(_, _)
\* the values f[x], x in S, in ascending order
SortedVals(f, S) ==
    IF S = {} THEN <<>>
    ELSE LET x == CHOOSE a \in S : \A b \in S : f[a] <= f[b]
         IN  <<f[x]>> \o SortedVals(f, S \ {x})

\* the median of the values f[x], x in S (S not empty), as a rational
Median(f, S) ==
    LET v == SortedVals(f, S)
        n == Len(v)
    IN  IF n % 2 = 1 THEN Num(v[(n + 1) \div 2], 1)
        ELSE Num(v[n \div 2] + v[n \div 2 + 1], 2)

\* df[col] = df.apply(f, axis=1) on a frame without rows. pandas decides
\* what apply returns by a trial call of f: a legacy build calls f on an empty
\* row, where the row lookups of f raise; a current build calls f on a row of
\* NaN.  When the trial call raises, apply returns a copy of the
\* (multi-column) frame and the assignment raises ValueError; otherwise it
\* returns an empty column.  The repository pins no pandas version.
PandasBuilds == {"legacy", "current"}

ApplyAssignRaises(frame, build, f_raises_on_nan) ==
    frame = {} /\ (build = "legacy" \/ f_raises_on_nan)

(***************************************************************************)
(* qaqc_vendor_data.py: the vendor-data stage                              *)
(*                                                                         *)
(* A raw row is [country, platform, month, seller_used_id, spu_used_id,     *)
(* source] after normalize_text_series (text, stripped).                   *)
(***************************************************************************)
COVERAGE_PASS_RATIO == 95

MaxRawRows == 3

Countries  == {"PH"}
Platforms  == {"LAZ"}
RawMonths  == {"2023-10", "2023-11", "2023-12", "2024-01", "2024-02", "2024-2"}
Sellers    == {"s1", "s2"}
Spus       == {"p1", "p2"}
Sources    == {"", "u1", "u2"}
\* seller-level rows of both sellers, category-level rows (source = the
\* category URL) of seller s1, and one row whose month does not parse
RawRowDomain ==
    [country : Countries, platform : Platforms, month : RawMonths,
     seller_used_id : Sellers, spu_used_id : Spus, source : {""}]
    \cup [country : Countries, platform : Platforms, month : RawMonths,
          seller_used_id : {"s1"}, spu_used_id : Spus, source : Sources \ {""}]
    \cup {[country |-> "PH", platform |-> "", month |-> "bad",
           seller_used_id |-> "s1", spu_used_id |-> "p1", source |-> ""]}

\* normalize_dimensions: an empty platform becomes UNKNOWN
normalize_dimensions(df) ==
    { [r EXCEPT !.platform = IF r.platform = "" THEN "UNKNOWN" ELSE r.platform] : r \in df }

\* read_raw_all: rows with an invalid month are dropped
read_raw_all(rows) == { r \in normalize_dimensions(rows) : ParseMonth(r.month) # NaT }

\* detect_latest_prev_month: [ok, latest, prev]; fewer than two months raise
detect_latest_prev_month(df) ==
    LET months == { ParseMonth(r.month) : r \in df } \ {NaT} IN
    IF Cardinality(months) < 2 THEN [ok |-> FALSE, latest |-> "", prev |-> ""]
    ELSE LET latest_dt == LatestOf(months)
             prev_dt   == MinusMonths(latest_dt, 1)
         IN  [ok |-> TRUE, latest |-> FormatMonth(latest_dt), prev |-> FormatMonth(prev_dt)]

split_seller_level(df)       == { r \in df : r.source = "" }
split_category_url_level(df) == { r \in df : r.source # "" }

classify_coverage_status(prev_scope, latest_scope, coverage_ratio) ==
    IF prev_scope = 0 /\ latest_scope > 0 THEN <<"fail", "new-in-latest">>
    ELSE IF prev_scope > 0 /\ latest_scope = 0 THEN <<"fail", "missing-in-latest">>
    ELSE IF IsNa(coverage_ratio) THEN <<"fail", "no-baseline">>
    ELSE IF RatGE(coverage_ratio, COVERAGE_PASS_RATIO, 100) THEN <<"pass", "normal">>
    ELSE <<"fail", "low-coverage">>

\* groupby(keys).agg(nunique(col)) as a function on the groups that occur;
\* the outer merge with fillna(0) reads 0 for a group missing on one side
CpKey(r)       == <<r.country, r.platform>>
SellerKey(r)   == <<r.country, r.platform, r.seller_used_id>>
CategoryKey(r) == <<r.country, r.platform, r.source>>
LevelKey(level, r) == IF level = "seller" THEN SellerKey(r) ELSE CategoryKey(r)

NUniqueSellers(df, k) == Cardinality({ r.seller_used_id : r \in { x \in df : CpKey(x) = k } })

build_coverage(df_prev, df_latest, latest_month, prev_month) ==
    { LET p  == NUniqueSellers(df_prev, k)
          l  == NUniqueSellers(df_latest, k)
          rr == safe_ratio(l, p)
          st == classify_coverage_status(p, l, rr)
      IN  [country |-> k[1], platform |-> k[2],
           month_latest |-> latest_month, month_prev |-> prev_month,
           total_seller_scope_prev |-> p, seller_with_vendor_data_latest |-> l,
           coverage_ratio |-> format_percent_ratio(rr),
           coverage_status |-> st[1], coverage_status_detail |-> st[2]]
      : k \in { CpKey(r) : r \in df_prev \cup df_latest } }

\* the pairwise trend of build_seller_trend_pairwise (level "seller") and of
\* build_category_trend_pairwise (level "category", category_url = source)
\* variant: nunique leaves the empty identifier out, as it does a missing value
NUniqueSpus_dropna(df, level, k) ==
    Cardinality({ r.spu_used_id : r \in { x \in df : LevelKey(level, x) = k } } \ {""})

\* ("spu_used_id", "nunique") of the group k; after normalize_text_series a
\* missing identifier is the empty string, a value like any other
NUniqueSpus(df, level, k) == Cardinality({ r.spu_used_id : r \in { x \in df : LevelKey(level, x) = k } })

\* pd.merge(prev, latest, how="outer"): the entities of either month
PairwiseKeys(df_prev, df_latest, level) == { LevelKey(level, r) : r \in df_prev \cup df_latest }

build_trend_pairwise(df_prev, df_latest, latest_month, prev_month, level) ==
    { LET p  == NUniqueSpus(df_prev, level, k)
          l  == NUniqueSpus(df_latest, level, k)
          rr == safe_ratio(l, p)
      IN  [country |-> k[1], platform |-> k[2], entity |-> k[3],
           month_latest |-> latest_month, month_prev |-> prev_month,
           spu_count_prev |-> p, spu_count_latest |-> l,
           spu_ratio_vs_prev |-> format_percent_ratio(rr),
           status |-> classify_pairwise_status(p, l, rr)]
      : k \in PairwiseKeys(df_prev, df_latest, level) }

build_seller_trend_pairwise(df_prev_seller, df_latest_seller, latest_month, prev_month) ==
    build_trend_pairwise(df_prev_seller, df_latest_seller, latest_month, prev_month, "seller")

build_category_trend_pairwise(df_prev_cat, df_latest_cat, latest_month, prev_month) ==
    build_trend_pairwise(df_prev_cat, df_latest_cat, latest_month, prev_month, "category")

\* the multi-month trend of build_seller_trend_multi_month (level "seller")
\* and build_category_trend_multi_month (level "category")
build_trend_multi_month_vendor(df_in, latest_month, level) ==
    LET w  == month_window(latest_month, LOOKBACK_MONTHS)
        df == { r \in df_in : InWindow(r.month, w) }
    IN  { LET rows      == { r \in df : LevelKey(level, r) = k }
              months    == { r.month : r \in rows }
              spu_count == [ m \in months |-> Cardinality({ r.spu_used_id : r \in { x \in rows : x.month = m } }) ]
              base      == months \ {latest_month}
              mo        == Cardinality(base)
              median    == IF base = {} THEN Num(0, 1) ELSE Median(spu_count, base)
              latest    == IF latest_month \in months THEN spu_count[latest_month] ELSE 0
              rr        == IF median.n = 0 THEN NaN ELSE DivIntByRat(latest, median)
          IN  [country |-> k[1], platform |-> k[2], entity |-> k[3],
               month_latest |-> latest_month, lookback_months |-> LOOKBACK_MONTHS,
               months_observed |-> mo, median_spu |-> median, latest_spu |-> latest,
               trend_ratio |-> format_percent_ratio(rr),
               trend_status |-> classify_trend_status(mo, latest, median)]
          : k \in { LevelKey(level, r) : r \in df } }

build_seller_trend_multi_month(df_seller, latest_month) ==
    build_trend_multi_month_vendor(df_seller, latest_month, "seller")

build_category_trend_multi_month(df_cat, latest_month) ==
    build_trend_multi_month_vendor(df_cat, latest_month, "category")

NoVendorOut ==
    [coverage |-> NoFile, seller_trend |-> NoFile, category_trend |-> NoFile,
     seller_trend_mm |-> NoFile, category_trend_mm |-> NoFile]

CsvFile(rows) == [exists |-> TRUE, rows |-> rows]

\* the result files and the outcome of run_qaqc_vendor_data on the raw rows;
\* the files already on disk stay as they are when the run raises before
\* it writes them.  The pairwise lambdas return a value on a row of NaN;
\* the trend_status lambda of the multi-month builders raises on it
\* (int(NaN)).
run_qaqc_vendor_data_result(rows, old, build) ==
    LET df_all == read_raw_all(rows)
        d      == detect_latest_prev_month(df_all)
    IN  IF rows = {} \/ ~d.ok THEN [phase |-> "error", out |-> old]
        ELSE
        LET df_prev   == { r \in df_all : r.month = d.prev }
            df_latest == { r \in df_all : r.month = d.latest }
            coverage  == build_coverage(df_prev, df_latest, d.latest, d.prev)
            seller_trend   == build_seller_trend_pairwise(split_seller_level(df_prev),
                                  split_seller_level(df_latest), d.latest, d.prev)
            category_trend == build_category_trend_pairwise(split_category_url_level(df_prev),
                                  split_category_url_level(df_latest), d.latest, d.prev)
            seller_trend_mm   == build_seller_trend_multi_month(split_seller_level(df_all), d.latest)
            category_trend_mm == build_category_trend_multi_month(split_category_url_level(df_all), d.latest)
            pairwise == [old EXCEPT !.coverage = CsvFile(coverage),
                                    !.seller_trend = CsvFile(seller_trend),
                                    !.category_trend = CsvFile(category_trend)]
        IN  IF \/ ApplyAssignRaises(seller_trend, build, FALSE)
               \/ ApplyAssignRaises(category_trend, build, FALSE)
            THEN [phase |-> "error", out |-> old]
            ELSE IF \/ ApplyAssignRaises(seller_trend_mm, build, TRUE)
                    \/ ApplyAssignRaises(category_trend_mm, build, TRUE)
            THEN [phase |-> "error", out |-> pairwise]
            ELSE [phase |-> "done",
                  out |-> [pairwise EXCEPT !.seller_trend_mm = CsvFile(seller_trend_mm),
                                           !.category_trend_mm = CsvFile(category_trend_mm)]]

\* a row is placed in one of the raw CSV files
AddRawRow ==
    /\ vPhase = "input"
    /\ Cardinality(raw) < MaxRawRows
    /\ \E r \in RawRowDomain \ raw : raw' = raw \cup {r}
    /\ UNCHANGED <<vPhase, vOut, fnVars, smVars, computedVars, extVars>>

run_qaqc_vendor_data ==
    /\ vPhase = "input"
    /\ \E build \in PandasBuilds :
          LET res == run_qaqc_vendor_data_result(raw, vOut, build) IN
          /\ vPhase' = res.phase
          /\ vOut' = res.out
    /\ UNCHANGED <<raw, fnVars, smVars, computedVars, extVars>>

NextVendor ==
    \/ AddRawRow
    \/ run_qaqc_vendor_data

(***************************************************************************)
(* qaqc_computed_data.py: the computed-data stage                          *)
(*                                                                         *)
(* A computed row is [country, platform, seller_used_id, month,            *)
(* final_revenue, computation_label]; an empty label is a missing value.   *)
(* The computed directory holds one CSV file per month, and the rows of a   *)
(* seller stand in a file in the order RowsInOrder gives.  The quantity     *)
(* columns go through the same steps as the revenue columns and take no    *)
(* part in abnormal_type; they are left out.                               *)
(***************************************************************************)
SPIKE_GROWTH_RATE_REVENUE == 2
BASE_EFFECT_REVENUE_PREV == 100

MaxComputedRows == 3

CMonths   == {"2023-12", "2024-01", "2024-02"}
Revenues  == {0, 50, 100, 300}
NoLabel   == ""
Labels    == {NoLabel, "A", "B"}
\* seller s1 with every revenue and label, seller s2 with one of each
ComputedRowDomain ==
    [country : Countries, platform : Platforms, seller_used_id : {"s1"},
     month : CMonths, final_revenue : Revenues, computation_label : Labels]
    \cup [country : Countries, platform : Platforms, seller_used_id : {"s2"},
          month : CMonths, final_revenue : {100}, computation_label : {"A"}]

LabelRank(l) == CASE l = NoLabel -> 0 [] l = "A" -> 1 [] l = "B" -> 2

RECURSIVE RowsInOrder(_)
\* the rows of one seller in one file, in file order
RowsInOrder(S) ==
    IF S = {} THEN <<>>
    ELSE LET x == CHOOSE a \in S : \A b \in S :
                     \/ a.final_revenue < b.final_revenue
                     \/ a.final_revenue = b.final_revenue
                        /\ LabelRank(a.computation_label) <= LabelRank(b.computation_label)
         IN  <<x>> \o RowsInOrder(S \ {x})

RECURSIVE first_non_null(_)
\* first_non_null on the labels of a sequence of rows; None when all are missing
first_non_null(rows) ==
    IF rows = <<>> THEN NoLabel
    ELSE IF Head(rows).computation_label # NoLabel THEN Head(rows).computation_label
    ELSE first_non_null(Tail(rows))

RECURSIVE SumRevenue(_)
SumRevenue(S) ==
    IF S = {} THEN 0
    ELSE LET x == CHOOSE a \in S : TRUE IN x.final_revenue + SumRevenue(S \ {x})

\* the file names of the computed directory: one file per month that has rows
list_computed_files(rows) == { r.month : r \in rows }

\* aggregate_computed_by_seller on the file of month f: one row per seller,
\* month = max, final_revenue = sum, computation_label = first_non_null
aggregate_computed_by_seller(rows, f) ==
    LET file == { r \in rows : r.month = f } IN
    { LET g == { r \in file : SellerKey(r) = k } IN
      [country |-> k[1], platform |-> k[2], seller_used_id |-> k[3], month |-> f,
       final_revenue |-> SumRevenue(g),
       computation_label |-> first_non_null(RowsInOrder(g))]
      : k \in { SellerKey(r) : r \in file } }

\* aggregate_all_months, after the check on the number of files: the files'
\* aggregates, the rows with an invalid month dropped
aggregate_all_months(rows) ==
    { r \in UNION { aggregate_computed_by_seller(rows, f) : f \in list_computed_files(rows) } :
        ParseMonth(r.month) # NaT }

\* detect_latest_prev_month_from_all: [ok, latest, prev]; fewer than two
\* months raise, and so does a latest month whose predecessor has no row
detect_latest_prev_month_from_all(df_months) ==
    LET months == { ParseMonth(m) : m \in df_months } \ {NaT} IN
    IF Cardinality(months) < 2 THEN [ok |-> FALSE, latest |-> "", prev |-> ""]
    ELSE LET latest_dt   == LatestOf(months)
             prev_dt     == MinusMonths(latest_dt, 1)
             month_prev  == FormatMonth(prev_dt)
             existing    == { FormatMonth(x) : x \in months }
         IN  IF month_prev \notin existing THEN [ok |-> FALSE, latest |-> "", prev |-> ""]
             ELSE [ok |-> TRUE, latest |-> FormatMonth(latest_dt), prev |-> month_prev]

\* safe_div(a, b) on one element: a zero divisor is replaced by pd.NA
safe_div(a, b) == IF b = 0 THEN NoneV ELSE safe_ratio(a, b)

\* variant: the threshold is applied to the ratio latest / previous
is_spike_on_ratio(final_revenue_prev, final_revenue_latest) ==
    RatGE(safe_div(final_revenue_latest, final_revenue_prev),
          SPIKE_GROWTH_RATE_REVENUE, 1)

\* df["growth_rate_revenue_raw"] >= SPIKE_GROWTH_RATE_REVENUE
is_spike(final_revenue_prev, final_revenue_latest) ==
    RatGE(safe_div(final_revenue_latest - final_revenue_prev, final_revenue_prev),
          SPIKE_GROWTH_RATE_REVENUE, 1)

is_base_effect(final_revenue_prev) == final_revenue_prev < BASE_EFFECT_REVENUE_PREV

\* computation_label_prev != computation_label_latest, elementwise on object
\* columns: a missing label compares unequal to everything, itself included
is_source_switch(label_prev, label_latest) ==
    label_prev = NoLabel \/ label_latest = NoLabel \/ label_prev # label_latest

\* classify(row) of run_pairwise_qaqc
classify(spike, base_effect, source_switch) ==
    IF ~spike THEN "none"
    ELSE IF base_effect THEN "base-effect"
    ELSE IF source_switch THEN "source-switch"
    ELSE "spike-out-trend"

\* risk(row) of run_pairwise_qaqc
risk(abnormal_type) ==
    IF abnormal_type = "spike-out-trend" THEN "high"
    ELSE IF abnormal_type = "source-switch" THEN "medium"
    ELSE IF abnormal_type = "base-effect" THEN "low"
    ELSE "none"

\* pd.merge(df_prev, df_latest, on=KEY_COLS, how="inner")
MergeInner(df_prev, df_latest) ==
    { <<p, l>> \in df_prev \X df_latest : SellerKey(p) = SellerKey(l) }

\* the frame df of run_pairwise_qaqc, one row per merged pair
run_pairwise_qaqc_frame(df_latest_raw, df_prev_raw, month_latest, month_prev) ==
    { LET p  == pl[1]
          l  == pl[2]
          at == classify(is_spike(p.final_revenue, l.final_revenue),
                         is_base_effect(p.final_revenue),
                         is_source_switch(p.computation_label, l.computation_label))
      IN  [country |-> l.country, platform |-> l.platform, seller_used_id |-> l.seller_used_id,
           month_latest |-> month_latest, month_prev |-> month_prev,
           final_revenue |-> l.final_revenue, final_revenue_prev |-> p.final_revenue,
           delta_final_revenue |-> l.final_revenue - p.final_revenue,
           growth_rate_revenue |->
               format_percent_elem(safe_div(l.final_revenue - p.final_revenue, p.final_revenue)),
           abnormal_flag |-> at # "none", abnormal_type |-> at, risk_level |-> risk(at),
           computation_label_prev |-> p.computation_label,
           computation_label_latest |-> l.computation_label]
      : pl \in MergeInner(df_prev_raw, df_latest_raw) }

\* build_trend_multi_month of qaqc_computed_data.py
build_trend_multi_month(df_all, month_latest) ==
    LET w  == month_window(month_latest, LOOKBACK_MONTHS)
        df == { r \in df_all : InWindow(r.month, w) }
    IN  { LET rows    == { r \in df : SellerKey(r) = k }
              months  == { r.month : r \in rows }
              revenue == [ m \in months |-> SumRevenue({ r \in rows : r.month = m }) ]
              base    == months \ {month_latest}
              mo      == Cardinality(base)
              median  == IF base = {} THEN Num(0, 1) ELSE Median(revenue, base)
              latest  == IF month_latest \in months THEN revenue[month_latest] ELSE 0
              rr      == IF median.n # 0 THEN DivIntByRat(latest, median) ELSE NaN
          IN  [country |-> k[1], platform |-> k[2], seller_used_id |-> k[3],
               month_latest |-> month_latest, lookback_months |-> LOOKBACK_MONTHS,
               months_observed |-> mo, median_revenue |-> median, latest_revenue |-> latest,
               trend_ratio_revenue |-> format_percent_elem(rr),
               trend_status_revenue |-> classify_trend_status_computed(mo, rr)]
          : k \in { SellerKey(r) : r \in df } }

NoComputedOut == [summary |-> NoFile, abnormal |-> NoFile, explain |-> NoFile, trend |-> NoFile]

\* the result files and the outcome of run_qaqc on the computed rows; the
\* lambdas of run_pairwise_qaqc return a value on a row of NaN
run_qaqc_result(rows, old, build) ==
    IF Cardinality(list_computed_files(rows)) < 2 THEN [phase |-> "error", out |-> old]
    ELSE
    LET df_all == aggregate_all_months(rows)
        d      == detect_latest_prev_month_from_all({ r.month : r \in df_all })
    IN  IF ~d.ok THEN [phase |-> "error", out |-> old]
        ELSE
        LET df_latest_raw == { r \in df_all : r.month = d.latest }
            df_prev_raw   == { r \in df_all : r.month = d.prev }
            df       == run_pairwise_qaqc_frame(df_latest_raw, df_prev_raw, d.latest, d.prev)
            abnormal == { r \in df : r.abnormal_flag }
            trend    == build_trend_multi_month(df_all, d.latest)
        IN  IF ApplyAssignRaises(df, build, FALSE) THEN [phase |-> "error", out |-> old]
            ELSE [phase |-> "done",
                  out |-> [summary |-> CsvFile(df), abnormal |-> CsvFile(abnormal),
                           explain |-> CsvFile(abnormal), trend |-> CsvFile(trend)]]

\* a row is placed in the computed CSV file of its month
AddComputedRow ==
    /\ cPhase = "input"
    /\ Cardinality(computed) < MaxComputedRows
    /\ \E r \in ComputedRowDomain \ computed : computed' = computed \cup {r}
    /\ UNCHANGED <<cPhase, cOut, fnVars, smVars, vendorVars, extVars>>

run_qaqc ==
    /\ cPhase = "input"
    /\ \E build \in PandasBuilds :
          LET res == run_qaqc_result(computed, cOut, build) IN
          /\ cPhase' = res.phase
          /\ cOut' = res.out
    /\ UNCHANGED <<computed, fnVars, smVars, vendorVars, extVars>>

NextComputed ==
    \/ AddComputedRow
    \/ run_qaqc

(***************************************************************************)
(* Country x platform check: run_check_country_platform_level of           *)
(* src/country_platform_level/check_country_platform_level.py.  It reads   *)
(* the seller and the category result CSV, aggregates each by (country,    *)
(* platform) and writes one file.  A result CSV, when it exists, holds one *)
(* row per entity (check_seller_level writes one row per seller_used_id    *)
(* and fails before writing when it has no row).  Rates are rationals.     *)
(***************************************************************************)
THRESHOLD == 95        \* THRESHOLD = 0.95, in percent

MaxCpRows == 2         \* rows per result CSV

CpCountries == {"PH", "VN"}
CpPlatforms == {"LAZ"}
CpSellers   == {"s1", "s2", "s3"}
CpCategories == {"u1", "u2"}
ScopeFlags  == {"in_scope", "out_scope"}
Statuses    == {"Normal", "Abnormal"}

\* rows of check_seller_level.csv / check_category_url_level.csv: the columns
\* the aggregation reads (scope_flag and status stand for seller_scope_flag /
\* category_scope_flag and seller_status / category_status)
EntityResultRows(ids) ==
    [entity : ids, country : CpCountries, platform : CpPlatforms,
     scope_flag : ScopeFlags, status : Statuses]

\* groupby(["country", "platform"]).apply(...): total_in_scope counts the rows
\* flagged in_scope, normal_all counts the rows with status Normal whatever
\* their scope flag
total_in_scope(g) == Cardinality({ r \in g : r.scope_flag = "in_scope" })
normal_all(g)     == Cardinality({ r \in g : r.status = "Normal" })

\* variant: the quotient is taken without the guard on the denominator
cp_rate_unguarded(normal, total) ==
    IF total > 0 THEN Num(normal, total)
    ELSE IF normal = 0 THEN NaN ELSE PosInf

\* normal_all / total_in_scope if total_in_scope > 0 else 0
cp_rate(normal, total) == IF total > 0 THEN Num(normal, total) ELSE Num(0, 1)

\* seller_agg / category_agg: one row per (country, platform) of the file
cp_agg(rows) ==
    { LET g    == { r \in rows : CpKey(r) = k }
          rate == cp_rate(normal_all(g), total_in_scope(g))
      IN  [country |-> k[1], platform |-> k[2],
           total_in_scope |-> total_in_scope(g), normal_all |-> normal_all(g),
           rate |-> rate, check_good |-> RatGE(rate, THRESHOLD, 100)]
      : k \in { CpKey(r) : r \in rows } }

\* variant: the universe is taken from the seller results only
cp_universe_seller_only(seller_df, category_df) == { CpKey(r) : r \in seller_df }

\* pd.concat([seller_df[cols], category_df[cols]]).drop_duplicates()
cp_universe(seller_df, category_df) == { CpKey(r) : r \in seller_df \cup category_df }

\* left merge of one aggregate on the universe, then fillna(0) / fillna(0.0) /
\* fillna(False) for a pair the aggregate does not have
cp_side(agg, k) ==
    IF \E a \in agg : CpKey(a) = k
    THEN LET a == CHOOSE a \in agg : CpKey(a) = k IN
         [total_in_scope |-> a.total_in_scope, normal_all |-> a.normal_all,
          rate |-> a.rate, check_good |-> a.check_good]
    ELSE [total_in_scope |-> 0, normal_all |-> 0, rate |-> Num(0, 1), check_good |-> FALSE]

cp_result(seller_df, category_df) ==
    { LET s == cp_side(cp_agg(seller_df), k)
          c == cp_side(cp_agg(category_df), k)
      IN  [country |-> k[1], platform |-> k[2],
           seller_total_in_scope |-> s.total_in_scope, seller_normal_all |-> s.normal_all,
           seller_rate |-> s.rate, seller_check_good |-> s.check_good,
           category_total_in_scope |-> c.total_in_scope, category_normal_all |-> c.normal_all,
           category_rate |-> c.rate, category_check_good |-> c.check_good,
           good_to_use |-> (s.check_good /\ c.check_good)]
      : k \in cp_universe(seller_df, category_df) }

\* the columns of the frame run_check_category_url_level writes
CategoryResultColumns ==
    {"category_scope_flag", "country", "platform", "category_url",
     "total_spu_current", "normal_spu_current", "failed_spu_current",
     "normal_rate", "status", "trend_avg_spu_last_n", "trend_ratio", "trend_status"}

\* the columns run_check_country_platform_level reads from the category file
ColumnsReadFromCategory ==
    {"country", "platform", "category_scope_flag", "category_status"}

\* a category file with the status column under the name the reader uses
CategoryColumnsAsRead == (CategoryResultColumns \ {"status"}) \cup {"category_status"}

OtherThanCp == UNCHANGED <<fnVars, smVars, vendorVars, computedVars, normVars, pipeVars, stageVars, decisionVars, tmpVars>>

\* the seller-level check has written a row of its result CSV
AddSellerResultRow ==
    /\ cpPhase = "input"
    /\ Cardinality(cpSeller.rows) < MaxCpRows
    /\ \E r \in EntityResultRows(CpSellers) :
          /\ \A x \in cpSeller.rows : x.entity # r.entity
          /\ cpSeller' = [exists |-> TRUE, rows |-> cpSeller.rows \cup {r}]
    /\ UNCHANGED <<cpCategory, cpCategoryColumns, cpPhase, cpOut>>
    /\ OtherThanCp

\* the category-level check has written a row of its result CSV; the file is
\* created with the columns run_check_category_url_level writes, or it is a
\* file from elsewhere that names the status column category_status
AddCategoryResultRow ==
    /\ cpPhase = "input"
    /\ Cardinality(cpCategory.rows) < MaxCpRows
    /\ \E r \in EntityResultRows(CpCategories) :
          /\ \A x \in cpCategory.rows : x.entity # r.entity
          /\ cpCategory' = [exists |-> TRUE, rows |-> cpCategory.rows \cup {r}]
    /\ IF cpCategory.exists THEN UNCHANGED cpCategoryColumns
       ELSE cpCategoryColumns' \in {CategoryResultColumns, CategoryColumnsAsRead}
    /\ UNCHANGED <<cpSeller, cpPhase, cpOut>>
    /\ OtherThanCp

\* pd.read_csv of a path that does not exist raises FileNotFoundError; there
\* is no check for the files before the two reads.  g["category_status"]
\* raises KeyError when the category file has no such column
run_check_country_platform_level ==
    /\ cpPhase = "input"
    /\ IF ~cpSeller.exists \/ ~cpCategory.exists
       THEN cpPhase' = "error" /\ cpOut' = cpOut
       ELSE IF ~(ColumnsReadFromCategory \subseteq cpCategoryColumns)
       THEN cpPhase' = "error" /\ cpOut' = cpOut
       ELSE /\ cpPhase' = "done"
            /\ cpOut' = [exists |-> TRUE, rows |-> cp_result(cpSeller.rows, cpCategory.rows)]
    /\ UNCHANGED <<cpSeller, cpCategory, cpCategoryColumns>>
    /\ OtherThanCp

NextCountryPlatform ==
    \/ AddSellerResultRow
    \/ AddCategoryResultRow
    \/ run_check_country_platform_level

(***************************************************************************)
(* Canonicalizer: normalize_raw_vendor_data of                             *)
(* src/normalize/normalize_raw_vendor_data.py.  An input directory is      *)
(* [isdir, files] with files a function from the CSV names to the rows of  *)
(* the file (a sequence) or Absent.  Of a row the model keeps the columns  *)
(* spu_used_id, month, vendor_id and asp; the other canonical columns are  *)
(* copied the same way.  The canonical table is a sequence of rows in      *)
(* insertion order.  Every file is read as one chunk.                      *)
(***************************************************************************)
MaxFileRows == 2       \* rows per input CSV
MaxNormRuns == 2       \* runs of the canonicalizer

NA == "<NA>"
Absent == <<>>          \* no such file (an input CSV of the model has a row)
RawNames      == <<"a.csv", "b.csv">>     \* in sorted() order
ComputedNames == <<"c.csv">>
NoDir == [isdir |-> FALSE, files |-> [n \in {"a.csv", "b.csv", "c.csv"} |-> Absent]]
NoDb  == [exists |-> FALSE, has_table |-> FALSE, rows |-> <<>>]

\* rows of an input CSV as read with dtype=str
InputRowDomain ==
    { [spu_used_id |-> "p1", month |-> "2024-01", vendor_id |-> "v1", asp |-> "10"],
      [spu_used_id |-> "p2", month |-> "2024-01", vendor_id |-> NA, asp |-> "x"],
      [spu_used_id |-> NA, month |-> "2024-02", vendor_id |-> "v2", asp |-> "5"] }
FileContents == UNION { [1..n -> InputRowDomain] : n \in 1..MaxFileRows }

\* pd.to_numeric(errors="coerce") on the strings of the model
to_numeric(str) ==
    CASE str = "10" -> Num(10, 1)
      [] str = "5"  -> Num(5, 1)
      [] OTHER      -> NaN

\* the vendor_group of the rows of one chunk: vendor_id.astype(str) when the
\* chunk has a vendor_id that is not missing (a missing one becomes "nan"),
\* else SINGLE_SOURCE (the inputs of the model have no time_scraped column)
vendor_group_of(chunk, r) ==
    IF \E i \in DOMAIN chunk : chunk[i].vendor_id # NA
    THEN (IF r.vendor_id = NA THEN "nan" ELSE r.vendor_id)
    ELSE "SINGLE_SOURCE"

RECURSIVE NormalizedFrom(_, _)
\* chunk[CANONICAL_COLS].dropna(subset=["spu_used_id", "month"]), rows i.. of the chunk
NormalizedFrom(chunk, i) ==
    IF i > Len(chunk) THEN <<>>
    ELSE LET r == chunk[i] IN
         (IF r.spu_used_id = NA \/ r.month = NA THEN <<>>
          ELSE << [spu_used_id |-> r.spu_used_id, month |-> r.month,
                   vendor_group |-> vendor_group_of(chunk, r), asp |-> to_numeric(r.asp)] >>)
         \o NormalizedFrom(chunk, i + 1)

RECURSIVE CsvFilesFrom(_, _, _)
\* sorted([f for f in os.listdir(d) if f.endswith(".csv")]), names i.. of the order
CsvFilesFrom(dir, names, i) ==
    IF i > Len(names) THEN <<>>
    ELSE (IF dir.files[names[i]] = Absent THEN <<>> ELSE <<names[i]>>)
         \o CsvFilesFrom(dir, names, i + 1)

\* _pick_input_sources: the first candidate that is a directory with a CSV
\* file; [ok, dir, csv_files]
_pick_input_sources(raw_dir, computed_dir) ==
    LET raw_csv      == CsvFilesFrom(raw_dir, RawNames, 1)
        computed_csv == CsvFilesFrom(computed_dir, ComputedNames, 1)
    IN  IF raw_dir.isdir /\ raw_csv # <<>> THEN [ok |-> TRUE, dir |-> raw_dir, csv_files |-> raw_csv]
        ELSE IF computed_dir.isdir /\ computed_csv # <<>>
             THEN [ok |-> TRUE, dir |-> computed_dir, csv_files |-> computed_csv]
        ELSE [ok |-> FALSE, dir |-> NoDir, csv_files |-> <<>>]

\* variant: the store of the previous run is still there when the inputs are picked
db_before_pick_kept(old_db) == old_db

\* os.remove(OUT_DB) before _pick_input_sources is called
db_before_pick(old_db) == NoDb

\* variant: the rows are appended to the table of the previous run
table_at_start_kept(old_db) == old_db.rows

\* the table the inserts start from: the file was removed and the table dropped
table_at_start(old_db) == <<>>

RECURSIVE InsertFiles(_, _, _, _)
\* the loop over input_files: to_sql(if_exists="append") of every non-empty chunk
InsertFiles(dir, csv_files, i, rows) ==
    IF i > Len(csv_files) THEN rows
    ELSE InsertFiles(dir, csv_files, i + 1,
                     rows \o NormalizedFrom(dir.files[csv_files[i]], 1))

\* normalize_raw_vendor_data: [outcome, db, manifest]
normalize_result(raw_dir, computed_dir, old_db) ==
    LET picked == _pick_input_sources(raw_dir, computed_dir)
        rows   == InsertFiles(picked.dir, picked.csv_files, 1, table_at_start(old_db))
    IN  IF ~picked.ok
        THEN [outcome |-> "no_input", db |-> db_before_pick(old_db), manifest |-> FALSE]
        ELSE IF rows = <<>>
        \* no chunk was inserted, the table was never created and
        \* _create_indexes fails on it
        THEN [outcome |-> "db_error",
              db |-> [exists |-> TRUE, has_table |-> FALSE, rows |-> <<>>], manifest |-> FALSE]
        ELSE [outcome |-> "ok",
              db |-> [exists |-> TRUE, has_table |-> TRUE, rows |-> rows], manifest |-> TRUE]

OtherThanNorm == UNCHANGED <<fnVars, smVars, vendorVars, computedVars, cpVars, pipeVars, stageVars, decisionVars, tmpVars>>

\* a CSV file is dropped into data/raw_vendor_data before the first run
AddRawFile ==
    /\ normLog = <<>>
    /\ \E i \in DOMAIN RawNames, c \in FileContents :
          /\ rawDir.files[RawNames[i]] = Absent
          /\ rawDir' = [isdir |-> TRUE, files |-> [rawDir.files EXCEPT ![RawNames[i]] = c]]
    /\ UNCHANGED <<computedDir, normDb, normManifest, normLog, normLastInputs>>
    /\ OtherThanNorm

\* a CSV file is dropped into data/computed_data before the first run
AddComputedFile ==
    /\ normLog = <<>>
    /\ \E i \in DOMAIN ComputedNames, c \in FileContents :
          /\ computedDir.files[ComputedNames[i]] = Absent
          /\ computedDir' = [isdir |-> TRUE, files |-> [computedDir.files EXCEPT ![ComputedNames[i]] = c]]
    /\ UNCHANGED <<rawDir, normDb, normManifest, normLog, normLastInputs>>
    /\ OtherThanNorm

\* the CSV files of both input directories are moved away
ClearInputs ==
    /\ rawDir.files # NoDir.files \/ computedDir.files # NoDir.files
    /\ rawDir' = [rawDir EXCEPT !.files = NoDir.files]
    /\ computedDir' = [computedDir EXCEPT !.files = NoDir.files]
    /\ UNCHANGED <<normDb, normManifest, normLog, normLastInputs>>
    /\ OtherThanNorm

normalize_raw_vendor_data ==
    /\ Len(normLog) < MaxNormRuns
    /\ LET res == normalize_result(rawDir, computedDir, normDb) IN
          /\ normDb' = res.db
          /\ normManifest' = res.manifest
          /\ normLog' = Append(normLog, res.outcome)
    /\ normLastInputs' = <<rawDir, computedDir>>
    /\ UNCHANGED <<rawDir, computedDir>>
    /\ OtherThanNorm

NextNormalize ==
    \/ AddRawFile
    \/ AddComputedFile
    \/ ClearInputs
    \/ normalize_raw_vendor_data

(***************************************************************************)
(* Pipeline driver: run_qaqc_pipeline of run_qaqc.py with the steps its    *)
(* try block runs, and build_excel_report of                               *)
(* src/build_report/build_excel_report.py, the step it runs.               *)
(***************************************************************************)
\* FILES of build_excel_report.py
FILES ==
    {"SPU_Attribute_Result", "SPU_Metric_Same_Month", "SPU_Metric_Diff_Months",
     "Seller_Decision", "Category_Decision", "Country_Platform_Summary"}

\* the _run(...) calls of the try block, in order
PIPELINE_STEPS == <<"Build Excel report">>

\* _build_spu_decision_sheet selects ["spu_used_id", "check_result"] from the
\* three SPU frames; _safe_read_csv gives a frame without columns for a file
\* that does not exist and the selection raises KeyError
_build_spu_decision_sheet_raises(files) ==
    ~({"SPU_Attribute_Result", "SPU_Metric_Same_Month", "SPU_Metric_Diff_Months"} \subseteq files)

\* build_excel_report: [raised, sheets]; the sheets written before the
\* decision sheet are in the workbook when it raises
build_excel_report(files) ==
    LET head == <<"README", "SPU_Attribute_Result", "SPU_Metric_Same_Month", "SPU_Metric_Diff_Months">>
    IN  IF _build_spu_decision_sheet_raises(files)
        THEN [raised |-> TRUE, sheets |-> head]
        ELSE [raised |-> FALSE,
              sheets |-> head \o <<"SPU_Decision_Base", "Seller_Decision",
                                   "Category_Decision", "Country_Platform_Summary">>]

\* func() of a step
StepResult(step_name, files) == build_excel_report(files)

RECURSIVE RunSteps(_, _, _)
\* the try block from step i on: _run prints [RUN], calls the step and prints
\* [DONE]; an exception of the step leaves _run and the try block (finally:
\* pass) and run_qaqc_pipeline with it
RunSteps(i, files, acc) ==
    IF i > Len(PIPELINE_STEPS) THEN [acc EXCEPT !.state = "finished"]
    ELSE LET step_name == PIPELINE_STEPS[i]
             res       == StepResult(step_name, files)
             started   == Append(acc.log, [tag |-> "RUN", step |-> step_name])
         IN  IF res.raised
             THEN [state |-> "raised", log |-> started, report |-> res.sheets]
             ELSE RunSteps(i + 1, files,
                           [state |-> acc.state, report |-> res.sheets,
                            log |-> Append(started, [tag |-> "DONE", step |-> step_name])])

OtherThanPipe == UNCHANGED <<fnVars, smVars, vendorVars, computedVars, cpVars, normVars, stageVars, decisionVars, tmpVars>>

\* an earlier stage has left one of the result CSVs the report reads
AddResultFile ==
    /\ pipeState = "idle"
    /\ \E f \in FILES \ resultFiles : resultFiles' = resultFiles \cup {f}
    /\ UNCHANGED <<pipeState, pipeLog, report>>
    /\ OtherThanPipe

run_qaqc_pipeline ==
    /\ pipeState = "idle"
    /\ LET res == RunSteps(1, resultFiles, [state |-> "idle", log |-> <<>>, report |-> <<>>]) IN
          /\ pipeState' = res.state
          /\ pipeLog' = res.log
          /\ report' = res.report
    /\ UNCHANGED resultFiles
    /\ OtherThanPipe

NextPipeline ==
    \/ AddResultFile
    \/ run_qaqc_pipeline

(***************************************************************************)
(* The stages as readers and writers of files.  Each stage is reduced to   *)
(* what it does to the files under qaqc_results/: which paths it removes,  *)
(* which it tests with os.path.exists, which it opens without a test and   *)
(* where it writes.  A file is [exists, run]: run is the number of the     *)
(* stage run that wrote it (0 for a file that a program outside the        *)
(* stages put there).  The canonical store is "absent", "empty" (a SQLite  *)
(* file without the table, as sqlite3.connect leaves behind when it is     *)
(* given a path that does not exist) or "ok".  Whether a check has         *)
(* findings depends on the data and is an input of the run.                *)
(***************************************************************************)
MaxStageRuns == 4

STORE == "normalized_raw_vendor_data.sqlite"

UpstreamFiles ==
    {"normalized_raw_vendor_data.csv", "check_seller_level.csv", "check_category_url_level.csv"}

OutputOf ==
    [run_spu_metric_same_month_checks  |-> "metric_same_month_result.csv",
     run_spu_metric_diff_months_checks |-> "metric_diff_months_result.csv",
     run_check_metric_diff_months_only |-> "spu_metric_diff_months_only.csv",
     compute_seller_results            |-> "seller_result.csv",
     compute_category_results          |-> "category_result.csv",
     compute_country_platform_results  |-> "country_platform_result.csv",
     run_check_country_platform_level  |-> "check_country_platform_level.csv"]

StageNames == DOMAIN OutputOf

\* the files of earlier stages (and the store) a stage reads
UpstreamOf ==
    [run_spu_metric_same_month_checks  |-> {STORE},
     run_spu_metric_diff_months_checks |-> {STORE},
     run_check_metric_diff_months_only |-> {STORE},
     compute_seller_results            |-> {STORE},
     compute_category_results          |-> {"normalized_raw_vendor_data.csv"},
     compute_country_platform_results  |-> {STORE, "seller_result.csv", "category_result.csv"},
     run_check_country_platform_level  |-> {"check_seller_level.csv", "check_category_url_level.csv"}]

StageFileNames == UpstreamFiles \cup {OutputOf[s] : s \in StageNames}

Missing == [exists |-> FALSE, run |-> 0]

path_exists(store, fs, p) == IF p = STORE THEN store # "absent" ELSE fs[p].exists

os_remove(fs, p) == [fs EXCEPT ![p] = Missing]

to_csv(fs, p, run) == [fs EXCEPT ![p] = [exists |-> TRUE, run |-> run]]

MissingUpstream(stage, store, fs) == {p \in UpstreamOf[stage] : ~path_exists(store, fs, p)}

StageOutcome(outcome, store, fs) == [outcome |-> outcome, store |-> store, files |-> fs]

\* a query of the table of the store: fails on a store that has no table
QueryRaises(store) == store # "ok"

same_month_files(store, fs, run, found) ==
    LET out == OutputOf.run_spu_metric_same_month_checks
        fs1 == IF fs[out].exists THEN os_remove(fs, out) ELSE fs IN
    IF ~path_exists(store, fs1, STORE) THEN StageOutcome("returned", store, fs1)
    ELSE IF QueryRaises(store) THEN StageOutcome("raised", store, fs1)
    ELSE IF found THEN StageOutcome("written", store, to_csv(fs1, out, run))
    ELSE StageOutcome("nothing", store, fs1)

diff_months_files(store, fs, run, found) ==
    LET out == OutputOf.run_spu_metric_diff_months_checks
        fs1 == IF fs[out].exists THEN os_remove(fs, out) ELSE fs IN
    IF ~path_exists(store, fs1, STORE) THEN StageOutcome("returned", store, fs1)
    ELSE IF QueryRaises(store) THEN StageOutcome("raised", store, fs1)
    ELSE IF found THEN StageOutcome("written", store, to_csv(fs1, out, run))
    ELSE StageOutcome("nothing", store, fs1)

\* sqlite3.connect creates the file it is given when there is none
sqlite3_connect(store) == IF store = "absent" THEN "empty" ELSE store

diff_months_only_files(store, fs, run) ==
    LET out == OutputOf.run_check_metric_diff_months_only
        store1 == sqlite3_connect(store) IN
    IF QueryRaises(store1) THEN StageOutcome("raised", store1, fs)
    ELSE StageOutcome("written", store1, to_csv(fs, out, run))

seller_results_files(store, fs, run) ==
    LET out == OutputOf.compute_seller_results IN
    IF ~path_exists(store, fs, STORE) THEN StageOutcome("returned", store, fs)
    ELSE IF QueryRaises(store) THEN StageOutcome("raised", store, fs)
    ELSE StageOutcome("written", store, to_csv(fs, out, run))

category_results_files(store, fs, run) ==
    LET out == OutputOf.compute_category_results IN
    IF ~path_exists(store, fs, "normalized_raw_vendor_data.csv")
    THEN StageOutcome("returned", store, fs)
    ELSE StageOutcome("written", store, to_csv(fs, out, run))

country_platform_results_files(store, fs, run) ==
    LET out == OutputOf.compute_country_platform_results IN
    IF \/ ~path_exists(store, fs, "seller_result.csv")
       \/ ~path_exists(store, fs, "category_result.csv")
       \/ ~path_exists(store, fs, STORE)
    THEN StageOutcome("returned", store, fs)
    ELSE IF QueryRaises(store) THEN StageOutcome("raised", store, fs)
    ELSE StageOutcome("written", store, to_csv(fs, out, run))

\* pd.read_csv of a path that does not exist raises FileNotFoundError
check_country_platform_files(store, fs, run) ==
    LET out == OutputOf.run_check_country_platform_level IN
    IF \/ ~path_exists(store, fs, "check_seller_level.csv")
       \/ ~path_exists(store, fs, "check_category_url_level.csv")
    THEN StageOutcome("raised", store, fs)
    ELSE StageOutcome("written", store, to_csv(fs, out, run))

NoStage == [stage |-> "none", run |-> 0, outcome |-> "none", missing |-> {}]

OtherThanStages ==
    UNCHANGED <<fnVars, smVars, vendorVars, computedVars, cpVars, normVars, pipeVars, decisionVars, tmpVars>>

\* the normalizer (or an operator) leaves a canonical store with the table
PutStore ==
    /\ stStore # "ok"
    /\ stStore' = "ok"
    /\ UNCHANGED <<stFiles, stLast>>
    /\ OtherThanStages

\* the canonical store is removed (the normalizer removes it first thing)
RemoveStore ==
    /\ stStore # "absent"
    /\ stStore' = "absent"
    /\ UNCHANGED <<stFiles, stLast>>
    /\ OtherThanStages

\* a program outside these stages writes one of the files they read
PutUpstreamFile ==
    /\ \E p \in UpstreamFiles :
          /\ ~stFiles[p].exists
          /\ stFiles' = [stFiles EXCEPT ![p] = [exists |-> TRUE, run |-> 0]]
    /\ UNCHANGED <<stStore, stLast>>
    /\ OtherThanStages

RemoveUpstreamFile ==
    /\ \E p \in UpstreamFiles :
          /\ stFiles[p].exists
          /\ stFiles' = os_remove(stFiles, p)
    /\ UNCHANGED <<stStore, stLast>>
    /\ OtherThanStages

\* one run of a stage: res is what the stage does to the store and the files
StageRun(stage, res) ==
    /\ stStore' = res.store
    /\ stFiles' = res.files
    /\ stLast' = [stage |-> stage, run |-> stLast.run + 1, outcome |-> res.outcome,
                  missing |-> MissingUpstream(stage, stStore, stFiles)]
    /\ OtherThanStages

StageSameMonth ==
    /\ stLast.run < MaxStageRuns
    /\ \E found \in BOOLEAN :
          StageRun("run_spu_metric_same_month_checks",
                   same_month_files(stStore, stFiles, stLast.run + 1, found))

StageDiffMonths ==
    /\ stLast.run < MaxStageRuns
    /\ \E found \in BOOLEAN :
          StageRun("run_spu_metric_diff_months_checks",
                   diff_months_files(stStore, stFiles, stLast.run + 1, found))

StageDiffMonthsOnly ==
    /\ stLast.run < MaxStageRuns
    /\ StageRun("run_check_metric_diff_months_only",
                diff_months_only_files(stStore, stFiles, stLast.run + 1))

StageSellerResults ==
    /\ stLast.run < MaxStageRuns
    /\ StageRun("compute_seller_results",
                seller_results_files(stStore, stFiles, stLast.run + 1))

StageCategoryResults ==
    /\ stLast.run < MaxStageRuns
    /\ StageRun("compute_category_results",
                category_results_files(stStore, stFiles, stLast.run + 1))

StageCountryPlatformResults ==
    /\ stLast.run < MaxStageRuns
    /\ StageRun("compute_country_platform_results",
                country_platform_results_files(stStore, stFiles, stLast.run + 1))

StageCheckCountryPlatform ==
    /\ stLast.run < MaxStageRuns
    /\ StageRun("run_check_country_platform_level",
                check_country_platform_files(stStore, stFiles, stLast.run + 1))

NextStages ==
    \/ PutStore
    \/ RemoveStore
    \/ PutUpstreamFile
    \/ RemoveUpstreamFile
    \/ StageSameMonth
    \/ StageDiffMonths
    \/ StageDiffMonthsOnly
    \/ StageSellerResults
    \/ StageCategoryResults
    \/ StageCountryPlatformResults
    \/ StageCheckCountryPlatform

(***************************************************************************)
(* src/qaqc_decision_summary.py: the decision summary.  A result CSV is    *)
(* [exists, rows]; only the columns the decisions read are kept, and the   *)
(* rows of a file are a set (every decision is an "any" over the rows).    *)
(* A frame read from a file is [is_none, rows].                            *)
(***************************************************************************)
MaxSummaryRows == 2

SCOPE_COUNTRIES == {"PH"}

SUMMARY_FILES ==
    [vendor_coverage          |-> "qaqc_vendor_coverage.csv",
     vendor_seller_trend_mm   |-> "qaqc_vendor_seller_trend_multi_month.csv",
     vendor_category_trend_mm |-> "qaqc_vendor_category_trend_multi_month.csv",
     market_abnormal          |-> "qaqc_market_share_latest_abnormal.csv",
     market_trend_mm          |-> "qaqc_market_share_latest_trend_multi_month.csv"]

SummaryKeys == DOMAIN SUMMARY_FILES

SummaryCountries == {"PH", "VN"}

AbnormalTrends == {"abnormal-drop", "abnormal-increase"}

\* the rows a result CSV can hold
SummaryRowDomain(k) ==
    IF k = "vendor_coverage"
    THEN [country : SummaryCountries, coverage_status : {"pass", "fail"}]
    ELSE IF k \in {"vendor_seller_trend_mm", "vendor_category_trend_mm"}
    THEN [country : SummaryCountries,
          trend_status : {"normal", "abnormal-drop", "abnormal-increase"}]
    ELSE IF k = "market_abnormal"
    THEN [country : SummaryCountries, abnormal_type : {"spike"}]
    ELSE [country : SummaryCountries,
          trend_status_revenue : {"normal", "abnormal-drop"},
          trend_status_quantity : {"normal", "abnormal-increase"}]

NoFrame == [is_none |-> TRUE, rows |-> {}]

apply_scope_filter(rows) == {r \in rows : r.country \in SCOPE_COUNTRIES}

safe_read_csv(file) ==
    IF ~file.exists THEN NoFrame
    ELSE [is_none |-> FALSE, rows |-> apply_scope_filter(file.rows)]

get_scope_country_label == "PH"

DecisionRow(stage, check_name, status, key_metric, benchmark, reference_file) ==
    [scope_country |-> get_scope_country_label, stage |-> stage, check_name |-> check_name,
     status |-> status, key_metric |-> key_metric, benchmark |-> benchmark,
     reference_file |-> reference_file]

\* each decision gives <<>> for None and <<row>> otherwise
vendor_coverage_decision(df) ==
    IF df.is_none \/ df.rows = {} THEN <<>>
    ELSE LET has_fail == \E r \in df.rows : r.coverage_status = "fail" IN
         <<DecisionRow("vendor-input", "vendor_coverage",
                       IF has_fail THEN "FAIL" ELSE "PASS",
                       "coverage_ratio", ">=95%", SUMMARY_FILES.vendor_coverage)>>

vendor_trend_decision(df, level) ==
    IF df.is_none \/ df.rows = {} THEN <<>>
    ELSE LET abnormal == \E r \in df.rows : r.trend_status \in AbnormalTrends IN
         <<DecisionRow("vendor-input",
                       IF level = "seller" THEN "vendor_trend_seller" ELSE "vendor_trend_category",
                       IF abnormal THEN "WARN" ELSE "PASS",
                       "trend_ratio", "drop<80%, increase>=200%",
                       IF level = "seller" THEN SUMMARY_FILES.vendor_seller_trend_mm
                                           ELSE SUMMARY_FILES.vendor_category_trend_mm)>>

market_abnormal_decision(df) ==
    IF df.is_none THEN <<>>
    ELSE <<DecisionRow("computed-output", "market_share_pairwise",
                       IF df.rows # {} THEN "WARN" ELSE "PASS",
                       "abnormal_type", "spike / source-switch",
                       SUMMARY_FILES.market_abnormal)>>

market_trend_decision(df) ==
    IF df.is_none \/ df.rows = {} THEN <<>>
    ELSE LET abnormal == \/ \E r \in df.rows : r.trend_status_revenue \in AbnormalTrends
                         \/ \E r \in df.rows : r.trend_status_quantity \in AbnormalTrends IN
         <<DecisionRow("computed-output", "market_share_trend_multi_month",
                       IF abnormal THEN "WARN" ELSE "PASS",
                       "trend_ratio", "drop<80%, increase>=200%",
                       SUMMARY_FILES.market_trend_mm)>>

stage_order == [x \in {"vendor-input", "computed-output"} |-> IF x = "vendor-input" THEN 1 ELSE 2]

IsVendorStage(r) == stage_order[r.stage] = 1

IsComputedStage(r) == stage_order[r.stage] = 2

\* variant: the sort in descending order
sort_by_stage_descending(rows) == SelectSeq(rows, IsComputedStage) \o SelectSeq(rows, IsVendorStage)

\* df.sort_values("_order"): the rows of order 1, then the rows of order 2
sort_by_stage(rows) == SelectSeq(rows, IsVendorStage) \o SelectSeq(rows, IsComputedStage)

\* the body of build_decision_summary: [raised, rows]
decision_summary(files) ==
    LET vendor_coverage       == safe_read_csv(files.vendor_coverage)
        vendor_seller_trend   == safe_read_csv(files.vendor_seller_trend_mm)
        vendor_category_trend == safe_read_csv(files.vendor_category_trend_mm)
        market_abnormal       == safe_read_csv(files.market_abnormal)
        market_trend          == safe_read_csv(files.market_trend_mm)
        rows == vendor_coverage_decision(vendor_coverage)
                \o vendor_trend_decision(vendor_seller_trend, "seller")
                \o vendor_trend_decision(vendor_category_trend, "category")
                \o market_abnormal_decision(market_abnormal)
                \o market_trend_decision(market_trend) IN
    IF rows = <<>> THEN [raised |-> TRUE, rows |-> <<>>]
    ELSE [raised |-> FALSE, rows |-> sort_by_stage(rows)]

NoSummaryFile == [exists |-> FALSE, rows |-> {}]

SummaryRowCount == Cardinality({kr \in UNION {{<<k, r>> : r \in dsFiles[k].rows} : k \in SummaryKeys} : TRUE})

OtherThanDecision ==
    UNCHANGED <<fnVars, smVars, vendorVars, computedVars, cpVars, normVars, pipeVars, stageVars, tmpVars>>

\* an earlier stage writes a result CSV (with its header and no row yet)
WriteSummaryFile ==
    /\ dsPhase = "idle"
    /\ \E k \in SummaryKeys :
          /\ ~dsFiles[k].exists
          /\ dsFiles' = [dsFiles EXCEPT ![k] = [exists |-> TRUE, rows |-> {}]]
    /\ UNCHANGED <<dsPhase, dsOut>>
    /\ OtherThanDecision

\* the stage that writes a result CSV puts one more row in it
AddSummaryRow ==
    /\ dsPhase = "idle"
    /\ SummaryRowCount < MaxSummaryRows
    /\ \E k \in SummaryKeys : \E r \in SummaryRowDomain(k) :
          /\ dsFiles[k].exists
          /\ r \notin dsFiles[k].rows
          /\ dsFiles' = [dsFiles EXCEPT ![k].rows = @ \cup {r}]
    /\ UNCHANGED <<dsPhase, dsOut>>
    /\ OtherThanDecision

build_decision_summary ==
    /\ dsPhase = "idle"
    /\ LET res == decision_summary(dsFiles) IN
          /\ dsPhase' = IF res.raised THEN "error" ELSE "done"
          /\ dsOut' = res.rows
    /\ UNCHANGED dsFiles
    /\ OtherThanDecision

NextDecision ==
    \/ WriteSummaryFile
    \/ AddSummaryRow
    \/ build_decision_summary

(***************************************************************************)
(* Chunked scans (SpecChunked).  The stages read their inputs with          *)
(* pd.read_csv / pd.read_sql_query(chunksize=...): a read gives the rows in *)
(* order, chunksize rows at a time.  Each scan is taken as a function of    *)
(* the rows and of the chunk size, applied to inputs drawn from bounded     *)
(* sets, one call per behaviour.                                            *)
(***************************************************************************)
MaxScanRows == 3

ChunkSizes == 1..MaxScanRows

RECURSIVE read_chunks(_, _)
\* the chunks a reader with chunksize yields for the rows, in order
read_chunks(rows, chunksize) ==
    IF Len(rows) = 0 THEN <<>>
    ELSE IF Len(rows) <= chunksize THEN <<rows>>
    ELSE <<SubSeq(rows, 1, chunksize)>>
         \o read_chunks(SubSeq(rows, chunksize + 1, Len(rows)), chunksize)

RECURSIVE normalize_chunks(_, _)
\* the loop "for chunk in reader": the rows every chunk (from chunk i on)
\* adds to the canonical table
normalize_chunks(chunks, i) ==
    IF i > Len(chunks) THEN <<>>
    ELSE NormalizedFrom(chunks[i], 1) \o normalize_chunks(chunks, i + 1)

\* the canonical rows of one input file read with the given chunk size
normalize_file(rows, chunksize) == normalize_chunks(read_chunks(rows, chunksize), 1)

CallNormalizeFile ==
    /\ call = NoCall
    /\ \E rows \in SeqsUpTo(InputRowDomain, MaxScanRows), chunksize \in ChunkSizes :
          call' = [fn |-> "normalize_file", args |-> <<rows, chunksize>>,
                   ret |-> normalize_file(rows, chunksize)]
    /\ OtherThanFn

\* rows of a scan that computes means: a key and a metric (NaN: missing
\* or not a number, after pd.to_numeric(errors="coerce"))
ScanKeys == {"k1", "k2"}

MeanRowDomain == [key : ScanKeys, value : {NaN, Num(10, 1), Num(40, 1)}]

KeysOf(rows) == {rows[i].key : i \in DOMAIN rows}

RECURSIVE group_sum(_, _, _)
\* groupby(key)[metric].sum() of a frame, rows i.. : missing values are skipped
group_sum(frame, key, i) ==
    IF i > Len(frame) THEN 0
    ELSE (IF frame[i].key = key /\ frame[i].value.k = "num" THEN frame[i].value.n ELSE 0)
         + group_sum(frame, key, i + 1)

RECURSIVE group_count(_, _, _)
\* groupby(key)[metric].count() of a frame, rows i.. : the values that are not missing
group_count(frame, key, i) ==
    IF i > Len(frame) THEN 0
    ELSE (IF frame[i].key = key /\ frame[i].value.k = "num" THEN 1 ELSE 0)
         + group_count(frame, key, i + 1)

\* groupby(key)[metric].mean() of a frame: NaN for a group without a value
group_mean(frame, key) ==
    IF group_count(frame, key, 1) = 0 THEN NaN
    ELSE Num(group_sum(frame, key, 1), group_count(frame, key, 1))

RECURSIVE _accumulate_means(_, _, _)
\* acc[key] after the chunks i.. : sum and count are added up over the chunks
\* in which the key occurs
_accumulate_means(chunks, key, i) ==
    IF i > Len(chunks) THEN [sum |-> 0, count |-> 0]
    ELSE LET rest == _accumulate_means(chunks, key, i + 1) IN
         IF key \in KeysOf(chunks[i])
         THEN [sum |-> group_sum(chunks[i], key, 1) + rest.sum,
               count |-> group_count(chunks[i], key, 1) + rest.count]
         ELSE rest

\* _acc_to_df(_accumulate_means(reader, ...)): the mean per key, pd.NA
\* when the count is 0
_acc_to_df(rows, chunksize) ==
    [key \in KeysOf(rows) |->
        LET stat == _accumulate_means(read_chunks(rows, chunksize), key, 1) IN
        IF stat.count > 0 THEN Num(stat.sum, stat.count) ELSE NoneV]

RECURSIVE mean_of_chunk_means(_, _, _)
\* the second groupby of aggregate_computed_by_seller over the concatenated
\* chunk aggregates, chunks i.. : [sum, count] of the chunk means of the key
\* that are not NaN (sum is a rational)
mean_of_chunk_means(chunks, key, i) ==
    IF i > Len(chunks) THEN [sum |-> Num(0, 1), count |-> 0]
    ELSE LET rest == mean_of_chunk_means(chunks, key, i + 1)
             m    == group_mean(chunks[i], key) IN
         IF key \in KeysOf(chunks[i]) /\ m.k = "num"
         THEN [sum |-> Num(m.n * rest.sum.d + rest.sum.n * m.d, m.d * rest.sum.d),
               count |-> rest.count + 1]
         ELSE rest

\* the final_asp column of aggregate_computed_by_seller: "mean" in the
\* aggregation of every chunk and "mean" again over the chunk aggregates
final_asp(rows, chunksize) ==
    [key \in KeysOf(rows) |->
        LET stat == mean_of_chunk_means(read_chunks(rows, chunksize), key, 1) IN
        IF stat.count = 0 THEN NaN ELSE Num(stat.sum.n, stat.sum.d * stat.count)]

CallAccumulateMeans ==
    /\ call = NoCall
    /\ \E rows \in SeqsUpTo(MeanRowDomain, MaxScanRows), chunksize \in ChunkSizes :
          call' = [fn |-> "_acc_to_df", args |-> <<rows, chunksize>>,
                   ret |-> _acc_to_df(rows, chunksize)]
    /\ OtherThanFn

CallFinalAsp ==
    /\ call = NoCall
    /\ \E rows \in SeqsUpTo(MeanRowDomain, MaxScanRows), chunksize \in ChunkSizes :
          call' = [fn |-> "final_asp", args |-> <<rows, chunksize>>,
                   ret |-> final_asp(rows, chunksize)]
    /\ OtherThanFn

\* rows of a scan that counts distinct SPUs: an entity (seller_used_id, or
\* the source column renamed to category_url) and an spu_used_id
PairRowDomain == [entity : {"e1", "e2"}, spu_used_id : {"p1", "p2", NA}]

\* the frames _load_checks_minimal can return: at most one row per
\* spu_used_id, is_normal as it is stored (1 or 0); a function from the SPUs
\* that have a row
SpuStatusFrames == UNION { [dom -> {0, 1}] : dom \in SUBSET {"p1", "p2"} }

RECURSIVE drop_duplicates(_, _)
\* DataFrame.drop_duplicates() of the rows i.. of a frame: the first
\* occurrence of every row is kept, in order
drop_duplicates(frame, i) ==
    IF i > Len(frame) THEN <<>>
    ELSE (IF \E j \in 1..(i - 1) : frame[j] = frame[i] THEN <<>> ELSE <<frame[i]>>)
         \o drop_duplicates(frame, i + 1)

IsCompletePair(r) == r.entity # NA /\ r.spu_used_id # NA

RECURSIVE insert_pairs(_, _)
\* the loop over the chunks (from chunk i on): dropna, drop_duplicates and
\* INSERT of the pairs of every chunk into the table of the temporary store
insert_pairs(chunks, i) ==
    IF i > Len(chunks) THEN <<>>
    ELSE drop_duplicates(SelectSeq(chunks[i], IsCompletePair), 1) \o insert_pairs(chunks, i + 1)

\* variant: COUNT(spu_used_id), the rows of the key are counted
count_rows(table, key, spus) ==
    Cardinality({i \in DOMAIN table : table[i].entity = key /\ table[i].spu_used_id \in spus})

\* COUNT(DISTINCT spu_used_id) of the rows of the key whose SPU is in spus
count_distinct(table, key, spus) ==
    Cardinality({table[i].spu_used_id : i \in {j \in DOMAIN table :
                    table[j].entity = key /\ table[j].spu_used_id \in spus}})

TableKeys(table) == {table[i].entity : i \in DOMAIN table}

TableSpus(table) == {table[i].spu_used_id : i \in DOMAIN table}

\* LEFT JOIN spu_status ... WHERE COALESCE(t.is_normal, 1) = 1
seller_normal_spus(table, spu_status) ==
    {p \in TableSpus(table) : IF p \in DOMAIN spu_status THEN spu_status[p] = 1 ELSE TRUE}

\* JOIN spu_status ... WHERE t.is_normal = 1
category_normal_spus(table, spu_status) ==
    {p \in TableSpus(table) : p \in DOMAIN spu_status /\ spu_status[p] = 1}

\* total_df and normal_df of a GROUP BY over the table: normal_df has a row
\* only for a key with a row that passes the WHERE
spu_counts(table, normal_spus) ==
    [total  |-> [key \in TableKeys(table) |-> count_distinct(table, key, TableSpus(table))],
     normal |-> [key \in {k \in TableKeys(table) : count_distinct(table, k, normal_spus) > 0}
                    |-> count_distinct(table, key, normal_spus)]]

_build_seller_spu_counts(rows, chunksize, spu_status) ==
    LET table == insert_pairs(read_chunks(rows, chunksize), 1) IN
    spu_counts(table, seller_normal_spus(table, spu_status))

_build_category_spu_counts(rows, chunksize, spu_status) ==
    LET table == insert_pairs(read_chunks(rows, chunksize), 1) IN
    spu_counts(table, category_normal_spus(table, spu_status))

\* total_df.merge(normal_df, how="left").fillna(0): total_spu and normal_spu
\* per key
merge_counts(counts) ==
    [key \in DOMAIN counts.total |->
        [total_spu  |-> counts.total[key],
         normal_spu |-> IF key \in DOMAIN counts.normal THEN counts.normal[key] ELSE 0]]

CallSellerSpuCounts ==
    /\ call = NoCall
    /\ \E rows \in SeqsUpTo(PairRowDomain, MaxScanRows), chunksize \in ChunkSizes,
          spu_status \in SpuStatusFrames :
          call' = [fn |-> "_build_seller_spu_counts", args |-> <<rows, chunksize, spu_status>>,
                   ret |-> merge_counts(_build_seller_spu_counts(rows, chunksize, spu_status))]
    /\ OtherThanFn

CallCategorySpuCounts ==
    /\ call = NoCall
    /\ \E rows \in SeqsUpTo(PairRowDomain, MaxScanRows), chunksize \in ChunkSizes,
          spu_status \in SpuStatusFrames :
          call' = [fn |-> "_build_category_spu_counts", args |-> <<rows, chunksize, spu_status>>,
                   ret |-> merge_counts(_build_category_spu_counts(rows, chunksize, spu_status))]
    /\ OtherThanFn

NextChunked ==
    \/ CallNormalizeFile
    \/ CallSellerSpuCounts
    \/ CallCategorySpuCounts
    \/ CallAccumulateMeans
    \/ CallFinalAsp

(***************************************************************************)
(* The temporary stores (SpecTmpStore): _build_seller_spu_counts,           *)
(* _build_category_spu_counts and _build_maps_from_raw each fill a SQLite  *)
(* file of their own (TMP_DB) chunk by chunk and remove it at the end.  A   *)
(* behaviour is a sequence of runs of one of the three builders; a run can  *)
(* be cut short between two chunks (the process dies or a read raises),     *)
(* which leaves the file behind with the inserts committed so far.  A raw   *)
(* row is [entity, spu_used_id, country]: entity is the seller_used_id or   *)
(* the category_url; every chunk holds one row.                             *)
(***************************************************************************)
MaxTmpRows == 2

TmpBuilders == {"_build_seller_spu_counts", "_build_category_spu_counts", "_build_maps_from_raw"}

TmpRowDomain == [entity : {"e1"}, spu_used_id : {"p1", "p2"}, country : {"PH", "VN"}]

\* the spu_status frames of the runs: no row, or p1 recorded as abnormal
TmpStatusFrames == [{} -> {0}] \cup [{"p1"} -> {0}]

NoTmpDb == [exists |-> FALSE, table |-> <<>>, spu_status |-> <<>>]

NoTmpRun ==
    [which |-> "none", state |-> "idle", rows |-> <<>>, spu_status |-> <<>>,
     next |-> 1, stale |-> FALSE, ret |-> <<>>]

\* variant: the file of the earlier run is opened as it is
tmp_table_at_start_kept(old_db) == old_db.table

\* os.remove(TMP_DB) when it exists, then CREATE TABLE: the table is empty
tmp_table_at_start(old_db) == <<>>

\* the INSERT of the chunk that holds the row r
tmp_insert(which, table, r) ==
    IF which = "_build_maps_from_raw"
    \* INSERT OR IGNORE INTO seller_map, seller_used_id is the PRIMARY KEY
    THEN (IF \E i \in DOMAIN table : table[i].entity = r.entity THEN table
          ELSE Append(table, [entity |-> r.entity, country |-> r.country]))
    ELSE Append(table, [entity |-> r.entity, spu_used_id |-> r.spu_used_id])

\* what the builder returns from the tables of its store
tmp_result(which, table, spu_status) ==
    IF which = "_build_seller_spu_counts"
    THEN spu_counts(table, seller_normal_spus(table, spu_status))
    ELSE IF which = "_build_category_spu_counts"
    THEN spu_counts(table, category_normal_spus(table, spu_status))
    ELSE table

OtherThanTmp ==
    UNCHANGED <<fnVars, smVars, vendorVars, computedVars, cpVars, normVars, pipeVars,
                stageVars, decisionVars>>

\* a builder is called: the file of an earlier run is removed and the
\* tables are created; spu_status is filled before the first chunk is read
StartBuild ==
    /\ tmpRun.state # "running"
    /\ \E which \in TmpBuilders, rows \in SeqsUpTo(TmpRowDomain, MaxTmpRows),
          spu_status \in TmpStatusFrames :
          /\ tmpRun.which \in {"none", which}
          /\ tmpDb' = [exists |-> TRUE, table |-> tmp_table_at_start(tmpDb),
                       spu_status |-> IF which = "_build_maps_from_raw" THEN <<>> ELSE spu_status]
          /\ tmpRun' = [which |-> which, state |-> "running", rows |-> rows,
                        spu_status |-> spu_status, next |-> 1,
                        stale |-> tmpDb.exists /\ tmpDb.table # <<>>, ret |-> <<>>]
    /\ OtherThanTmp

\* the next chunk is read and its rows are inserted
InsertChunk ==
    /\ tmpRun.state = "running"
    /\ tmpRun.next <= Len(tmpRun.rows)
    /\ tmpDb' = [tmpDb EXCEPT !.table = tmp_insert(tmpRun.which, @, tmpRun.rows[tmpRun.next])]
    /\ tmpRun' = [tmpRun EXCEPT !.next = @ + 1]
    /\ OtherThanTmp

\* the run is cut short: the file stays, with the inserts up to a commit
AbortBuild ==
    /\ tmpRun.state = "running"
    /\ \E k \in 0..Len(tmpDb.table) :
          tmpDb' = [tmpDb EXCEPT !.table = SubSeq(@, 1, k)]
    /\ tmpRun' = [tmpRun EXCEPT !.state = "aborted"]
    /\ OtherThanTmp

\* every chunk is read: the results are queried, the connection is closed
\* and the file is removed
CompleteBuild ==
    /\ tmpRun.state = "running"
    /\ tmpRun.next > Len(tmpRun.rows)
    /\ tmpRun' = [tmpRun EXCEPT !.state = "done",
                                !.ret = tmp_result(tmpRun.which, tmpDb.table, tmpDb.spu_status)]
    /\ tmpDb' = NoTmpDb
    /\ OtherThanTmp

NextTmpStore ==
    \/ StartBuild
    \/ InsertChunk
    \/ AbortBuild
    \/ CompleteBuild

(***************************************************************************)
(* Specifications                                                          *)
(***************************************************************************)
NoConfig ==
    [asp |-> [min_pct |-> 0, max_pct |-> 0],
     historical_quantity |-> [min_pct |-> 0, max_pct |-> 0],
     historical_rating |-> [min_pct |-> 0, max_pct |-> 0]]

(***************************************************************************)
(* The pairwise trend builders (SpecPairwise), applied to the frames of    *)
(* the previous and of the latest month.  A missing spu_used_id is the     *)
(* empty string after normalize_dimensions.                                *)
(***************************************************************************)
MaxPairwiseRows == 2

PairwiseSpus == {"", "p1", "p2"}

PairwiseFrames(month, level) ==
    LET domain == IF level = "seller"
                  THEN [country : {"PH"}, platform : {"LAZ"}, month : {month},
                        seller_used_id : {"s1", "s2"}, spu_used_id : PairwiseSpus, source : {""}]
                  ELSE [country : {"PH"}, platform : {"LAZ"}, month : {month},
                        seller_used_id : {"s1"}, spu_used_id : PairwiseSpus, source : {"u1", "u2"}]
    IN  { df \in SUBSET domain : Cardinality(df) <= MaxPairwiseRows }

CallSellerTrendPairwise ==
    /\ call = NoCall
    /\ \E df_prev \in PairwiseFrames("2024-01", "seller"),
          df_latest \in PairwiseFrames("2024-02", "seller") :
          call' = [fn |-> "build_seller_trend_pairwise", args |-> <<df_prev, df_latest>>,
                   ret |-> build_seller_trend_pairwise(df_prev, df_latest, "2024-02", "2024-01")]
    /\ OtherThanFn

CallCategoryTrendPairwise ==
    /\ call = NoCall
    /\ \E df_prev \in PairwiseFrames("2024-01", "category"),
          df_latest \in PairwiseFrames("2024-02", "category") :
          call' = [fn |-> "build_category_trend_pairwise", args |-> <<df_prev, df_latest>>,
                   ret |-> build_category_trend_pairwise(df_prev, df_latest, "2024-02", "2024-01")]
    /\ OtherThanFn

NextPairwise ==
    \/ CallSellerTrendPairwise
    \/ CallCategoryTrendPairwise

Init ==
    /\ call = NoCall
    /\ canon = NoFile /\ smPhase = "input" /\ smCfg = NoConfig /\ smOut = NoFile
    /\ raw = {} /\ vPhase = "input" /\ vOut = NoVendorOut
    /\ computed = {} /\ cPhase = "input" /\ cOut = NoComputedOut
    /\ cpSeller = NoFile /\ cpCategory = NoFile /\ cpPhase = "input" /\ cpOut = NoFile
    /\ cpCategoryColumns = CategoryResultColumns
    /\ rawDir = NoDir /\ computedDir = NoDir /\ normDb = NoDb /\ normManifest = FALSE
    /\ normLog = <<>> /\ normLastInputs = <<NoDir, NoDir>>
    /\ resultFiles = {} /\ pipeState = "idle" /\ pipeLog = <<>> /\ report = <<>>
    /\ stStore = "absent" /\ stFiles = [p \in StageFileNames |-> Missing] /\ stLast = NoStage
    /\ dsFiles = [k \in SummaryKeys |-> NoSummaryFile] /\ dsPhase = "idle" /\ dsOut = <<>>
    /\ tmpDb = NoTmpDb /\ tmpRun = NoTmpRun

Next ==
    \/ NextFn
    \/ NextSameMonth
    \/ NextVendor
    \/ NextComputed
    \/ NextCountryPlatform
    \/ NextNormalize
    \/ NextPipeline
    \/ NextStages
    \/ NextDecision
    \/ NextChunked
    \/ NextTmpStore
    \/ NextPairwise

SpecFn        == Init /\ [][NextFn]_vars
SpecSameMonth == Init /\ [][NextSameMonth]_vars
SpecVendor    == Init /\ [][NextVendor]_vars
SpecComputed  == Init /\ [][NextComputed]_vars
SpecCountryPlatform == Init /\ [][NextCountryPlatform]_vars
SpecNormalize == Init /\ [][NextNormalize]_vars
SpecPipeline  == Init /\ [][NextPipeline]_vars
SpecStages    == Init /\ [][NextStages]_vars
SpecDecision  == Init /\ [][NextDecision]_vars
SpecChunked   == Init /\ [][NextChunked]_vars
SpecTmpStore  == Init /\ [][NextTmpStore]_vars
SpecPairwise  == Init /\ [][NextPairwise]_vars
Spec          == Init /\ [][Next]_vars

(***************************************************************************)
(* Properties                                                              *)
(***************************************************************************)

\* the number of distinct non-NULL vendor groups of a (spu_used_id, month) group
DistinctVendorGroups(spu, month) ==
    Cardinality({ r.vendor_group : r \in { x \in canon.rows :
        x.spu_used_id = spu /\ x.month = month /\ x.vendor_group # SqlNull } })

\* the metric of the group has a positive minimum and max / min * 100 outside
\* the band of the loaded thresholds
OutsideBand(spu, month, metric) ==
    LET vals == { MetricOf(r, metric).n : r \in { x \in canon.rows :
                    x.spu_used_id = spu /\ x.month = month /\ MetricOf(x, metric).k = "num" } }
    IN  /\ vals # {}
        /\ MinOf(vals) > 0
        /\ \/ MaxOf(vals) * 100 < smCfg[metric].min_pct * MinOf(vals)
           \/ MaxOf(vals) * 100 > smCfg[metric].max_pct * MinOf(vals)

\* C1: after run_spu_metric_same_month_checks, no output row (of any metric)
\* belongs to a (spu_used_id, month) group with fewer than two distinct
\* non-null vendor_group values
C1_SingleVendorGroupNeverFlagged ==
    smPhase = "done" =>
        \A o \in smOut.rows : DistinctVendorGroups(o.spu_used_id, o.month) >= 2

\* C1 witness: the run is over, a group with one vendor group has a metric
\* outside its band, and the output has no row for that group
C1_Witness ==
    /\ smPhase = "done"
    /\ \E r \in canon.rows, metric \in METRICS :
          /\ DistinctVendorGroups(r.spu_used_id, r.month) < 2
          /\ OutsideBand(r.spu_used_id, r.month, metric)
          /\ ~\E o \in smOut.rows : o.spu_used_id = r.spu_used_id /\ o.month = r.month

\* C2: classify_pairwise_status returns the status of the first rule that
\* matches, in the order new-in-latest, missing-in-latest, no-baseline,
\* abnormal-increase (ratio >= 2.00), abnormal-drop (ratio < 0.80), normal;
\* (prev = 0, latest = 5) is new-in-latest whatever the ratio
C2_PairwisePrecedence ==
    call.fn = "classify_pairwise_status" =>
        LET prev   == call.args[1]
            latest == call.args[2]
            ratio  == call.args[3]
            new     == prev = 0 /\ latest > 0
            missing == prev > 0 /\ latest = 0
            undef   == ratio.k \in {"nan", "none"}
            incr    == ratio.k = "inf" \/ (ratio.k = "num" /\ ratio.n >= 2 * ratio.d)
            drop    == ratio.k = "-inf" \/ (ratio.k = "num" /\ 10 * ratio.n < 8 * ratio.d)
        IN  /\ call.ret \in {"new-in-latest", "missing-in-latest", "no-baseline",
                             "abnormal-increase", "abnormal-drop", "normal"}
            /\ new => call.ret = "new-in-latest"
            /\ ~new /\ missing => call.ret = "missing-in-latest"
            /\ ~new /\ ~missing /\ undef => call.ret = "no-baseline"
            /\ ~new /\ ~missing /\ ~undef /\ incr => call.ret = "abnormal-increase"
            /\ ~new /\ ~missing /\ ~undef /\ ~incr /\ drop => call.ret = "abnormal-drop"
            /\ ~new /\ ~missing /\ ~undef /\ ~incr /\ ~drop => call.ret = "normal"
            /\ prev = 0 /\ latest = 5 => call.ret = "new-in-latest"

\* C2 witness: (prev = 0, latest = 5) with a ratio that is >= 2.00 came out
\* as new-in-latest
C2_Witness ==
    /\ call.fn = "classify_pairwise_status"
    /\ call.args[1] = 0 /\ call.args[2] = 5
    /\ call.args[3] = Num(3, 1)
    /\ call.ret = "new-in-latest"

\* the trend rule of C3 on (months_observed, undefined ratio, ratio as n/d)
TrendRule(months_observed, undef, n, d) ==
    IF months_observed < 2 THEN "insufficient-history"
    ELSE IF undef THEN "no-baseline"
    ELSE IF n >= 2 * d THEN "abnormal-increase"
    ELSE IF 10 * n < 8 * d THEN "abnormal-drop"
    ELSE "normal"

\* C3: both classify_trend_status versions give insufficient-history below
\* two baseline months, else no-baseline for a zero median or an undefined
\* ratio, else abnormal-increase (>= 2.00), abnormal-drop (< 0.80) or normal;
\* months M-2, M-1 with median 40 and latest 10 give abnormal-drop
C3_TrendPrecedence ==
    /\ call.fn = "classify_trend_status" =>
          LET mo  == call.args[1]
              lat == call.args[2]
              med == call.args[3]
          IN  /\ call.ret = TrendRule(mo, med.n = 0, lat * med.d, med.n)
              /\ mo = 1 => call.ret = "insufficient-history"
              /\ (mo = 2 /\ lat = 10 /\ med = Num(40, 1)) => call.ret = "abnormal-drop"
    /\ call.fn = "classify_trend_status_computed" =>
          LET mo == call.args[1]
              r  == call.args[2]
          IN  /\ call.ret = TrendRule(mo, r.k # "num", r.n, r.d)
              /\ mo = 1 => call.ret = "insufficient-history"
              /\ (mo = 2 /\ r = Num(1, 4)) => call.ret = "abnormal-drop"

\* C3 witness: one baseline month and a ratio of 5.00 came out as
\* insufficient-history
C3_Witness ==
    /\ call.fn = "classify_trend_status"
    /\ call.args[1] = 1 /\ call.args[2] = 5 /\ call.args[3] = Num(1, 1)
    /\ call.ret = "insufficient-history"

\* C4: in the summary of run_pairwise_qaqc a spike is base-effect when the
\* previous revenue is < 100, else source-switch when computation_label
\* differs between the two months, else spike-out-trend; a non-spike is none;
\* risk_level is high / medium / low / none for spike-out-trend /
\* source-switch / base-effect / none; 50 -> 500 is base-effect with risk
\* low, 1000 -> 3000 without a label change is spike-out-trend with risk high
C4_SubClassification ==
    /\ cPhase = "done" =>
          \A r \in cOut.summary.rows :
              /\ r.abnormal_type =
                    (IF ~r.abnormal_flag THEN "none"
                     ELSE IF r.final_revenue_prev < 100 THEN "base-effect"
                     ELSE IF r.computation_label_prev # r.computation_label_latest THEN "source-switch"
                     ELSE "spike-out-trend")
              /\ r.risk_level =
                    (CASE r.abnormal_type = "spike-out-trend" -> "high"
                       [] r.abnormal_type = "source-switch"   -> "medium"
                       [] r.abnormal_type = "base-effect"     -> "low"
                       [] OTHER                               -> "none")
    /\ classify(is_spike(50, 500), is_base_effect(50), is_source_switch("A", "A")) = "base-effect"
    /\ classify(is_spike(1000, 3000), is_base_effect(1000), is_source_switch("A", "A")) = "spike-out-trend"

\* C5 as stated: a seller of the summary is a spike (abnormal_type other than
\* none) exactly when latest_revenue / previous_revenue >= 2.00
C5_SpikeIffRatioAtLeast2 ==
    cPhase = "done" =>
        \A r \in cOut.summary.rows :
            (r.abnormal_type # "none") <=>
                (r.final_revenue_prev > 0 /\ r.final_revenue >= 2 * r.final_revenue_prev)

\* C5 amended: a seller of the summary is a spike exactly when the previous
\* revenue is not zero and the growth rate (latest - previous) / previous is
\* >= 2.00, that is latest / previous >= 3.00
C5_SpikeIffGrowthAtLeast2 ==
    cPhase = "done" =>
        \A r \in cOut.summary.rows :
            (r.abnormal_type # "none") <=>
                \/ r.final_revenue_prev > 0 /\ r.final_revenue >= 3 * r.final_revenue_prev
                \/ r.final_revenue_prev < 0 /\ r.final_revenue <= 3 * r.final_revenue_prev

\* C5 witness: a seller whose revenue doubled (50 -> 100) is in the summary
\* and is no spike
C5_Witness ==
    /\ cPhase = "done"
    /\ \E r \in cOut.summary.rows :
          r.final_revenue_prev = 50 /\ r.final_revenue = 100 /\ r.abnormal_type = "none"

\* the rows of a result file for one entity
EntityKey(r) == <<r.country, r.platform, r.entity>>
RowsOfEntity(file, k) == { r \in file.rows : EntityKey(r) = k }
RowsOfSeller(file, k) == { r \in file.rows : SellerKey(r) = k }

\* C6: every pairwise output holds exactly one row for each entity observed
\* in the latest or in the previous month (build_seller_trend_pairwise,
\* build_category_trend_pairwise, run_pairwise_qaqc); an entity of one month
\* only is new-in-latest or missing-in-latest there
C6_OneRowPerEntity ==
    /\ vPhase = "done" =>
          \A o \in vOut.seller_trend.rows \cup vOut.category_trend.rows :
              \A r \in read_raw_all(raw) :
                  r.month \in {o.month_latest, o.month_prev} =>
                      IF r.source = ""
                      THEN Cardinality(RowsOfEntity(vOut.seller_trend, SellerKey(r))) = 1
                      ELSE Cardinality(RowsOfEntity(vOut.category_trend, CategoryKey(r))) = 1
    /\ cPhase = "done" =>
          \A r \in computed :
              (\E o \in cOut.trend.rows : r.month \in {o.month_latest, FormatMonth(MinusMonths(ParseMonth(o.month_latest), 1))})
                  => Cardinality(RowsOfSeller(cOut.summary, SellerKey(r))) = 1

\* the valid months of a set of rows, and whether a row of the month before
\* the latest one exists
ValidMonths(rows) == { ParseMonth(r.month) : r \in rows } \ {NaT}
HasPrevMonth(rows) ==
    /\ ValidMonths(rows) # {}
    /\ MinusMonths(LatestOf(ValidMonths(rows)), 1) \in ValidMonths(rows)

\* C7: when no record has the month before the latest month, the pairwise
\* stage raises and writes no pairwise output (run_qaqc_vendor_data and
\* run_qaqc), and month_prev is always the latest month minus one
C7_NoPrevMonthRaises ==
    /\ (vPhase # "input" /\ ~HasPrevMonth(raw)) =>
          /\ vPhase = "error"
          /\ ~vOut.coverage.exists /\ ~vOut.seller_trend.exists /\ ~vOut.category_trend.exists
    /\ (cPhase # "input" /\ ~HasPrevMonth(computed)) =>
          /\ cPhase = "error"
          /\ ~cOut.summary.exists /\ ~cOut.abnormal.exists /\ ~cOut.explain.exists
    /\ \A o \in vOut.coverage.rows \cup vOut.seller_trend.rows \cup vOut.category_trend.rows
               \cup cOut.summary.rows :
          ParseMonth(o.month_prev) = MinusMonths(ParseMonth(o.month_latest), 1)

IsInvalidRatio(v) == v.k \in {"nan", "inf", "-inf", "none"}

\* C8: format_percent_ratio and format_percent_series render NaN, +inf, -inf
\* and a missing ratio as "-", and render nothing as "-%" or "%"
C8_InvalidRatioIsDash ==
    /\ call.fn = "format_percent_ratio" =>
          /\ IsInvalidRatio(call.args[1]) => call.ret = <<"-">>
          /\ call.ret \notin {<<"-", "%">>, <<"%">>}
    /\ call.fn = "format_percent_series" =>
          \A i \in DOMAIN call.args[1] :
              /\ IsInvalidRatio(call.args[1][i]) => call.ret[i] = <<"-">>
              /\ call.ret[i] \notin {<<"-", "%">>, <<"%">>}

\* C8 witness: a series with an infinite and a missing element came out with
\* "-" in both places
C8_Witness ==
    /\ call.fn = "format_percent_series"
    /\ Len(call.args[1]) = 2
    /\ call.args[1][1] = PosInf /\ call.args[1][2] = NoneV
    /\ call.ret = << <<"-">>, <<"-">> >>

DigitChars == {"0", "1", "2", "3", "4", "5", "6", "7", "8", "9"}

\* the string ends in a point, two digits and the percent sign
HasTwoDecimals(s) ==
    /\ Len(s) >= 5
    /\ s[Len(s)] = "%"
    /\ s[Len(s) - 1] \in DigitChars /\ s[Len(s) - 2] \in DigitChars
    /\ s[Len(s) - 3] = "."

\* C9: format_percent_ratio and format_percent_series render a finite ratio
\* as the percentage with exactly two digits after the point and "%"; 0.5
\* is "50.00%"
C9_TwoDecimals ==
    /\ call.fn = "format_percent_ratio" =>
          /\ call.args[1].k = "num" => HasTwoDecimals(call.ret)
          /\ call.args[1] = Num(1, 2) => call.ret = <<"5", "0", ".", "0", "0", "%">>
    /\ call.fn = "format_percent_series" =>
          \A i \in DOMAIN call.args[1] :
              /\ call.args[1][i].k = "num" => HasTwoDecimals(call.ret[i])
              /\ call.args[1][i] = Num(1, 2) => call.ret[i] = <<"5", "0", ".", "0", "0", "%">>

\* the category URL has no row in the latest month nor in the three months
\* before it
ZeroSpusInWindow(rows, url) ==
    LET latest_dt == LatestOf(ValidMonths(rows)) IN
    \A r \in rows :
        (r.source = url /\ ParseMonth(r.month) # NaT) =>
            MonthLT(ParseMonth(r.month), MinusMonths(latest_dt, 3))

\* C10: a category URL with 0 SPUs in the three baseline months and in the
\* latest month has a row with trend_status no-baseline in the category
\* multi-month trend, and the stage does not crash
C10_ZeroCategoryNoBaseline ==
    (vPhase # "input" /\ Cardinality(ValidMonths(raw)) >= 2) =>
        \A url \in { r.source : r \in read_raw_all(raw) } \ {""} :
            ZeroSpusInWindow(read_raw_all(raw), url) =>
                /\ vPhase = "done"
                /\ \E o \in vOut.category_trend_mm.rows :
                      o.entity = url /\ o.trend_status = "no-baseline"

\* the rows of the country x platform result for one (country, platform)
CpRowsOf(k) == { o \in cpOut.rows : CpKey(o) = k }

\* C11: in the result of run_check_country_platform_level, a (country,
\* platform) whose seller (category) total_in_scope is 0 has seller
\* (category) rate exactly 0, not NaN and not an error, and the matching
\* check_good is False
C11_ZeroScopeRateZero ==
    cpPhase = "done" =>
        \A o \in cpOut.rows :
            /\ o.seller_total_in_scope = 0 =>
                  o.seller_rate = Num(0, 1) /\ ~o.seller_check_good
            /\ o.category_total_in_scope = 0 =>
                  o.category_rate = Num(0, 1) /\ ~o.category_check_good

\* C11 witness: a pair whose sellers are all out of scope, one of them
\* Normal, is in the result with seller rate 0 and a False flag
C11_Witness ==
    /\ cpPhase = "done"
    /\ \E o \in cpOut.rows :
          /\ o.seller_total_in_scope = 0 /\ o.seller_normal_all > 0
          /\ o.seller_rate = Num(0, 1) /\ ~o.seller_check_good

\* rate = (in-scope rows with status Normal) / (in-scope rows), 0 for none
InScopeRate(rows, k, rate) ==
    LET ins  == { r \in rows : CpKey(r) = k /\ r.scope_flag = "in_scope" }
        good == { r \in ins : r.status = "Normal" }
    IN  /\ rate.k = "num"
        /\ IF ins = {} THEN rate.n = 0
           ELSE rate.n * Cardinality(ins) = Cardinality(good) * rate.d
        /\ 0 <= rate.n /\ rate.n <= rate.d

\* C12: seller_rate and category_rate are (in-scope entities with outcome
\* Normal) / (in-scope entities); entities out of scope count in neither,
\* so every rate is in [0, 1]
C12_RateOverInScope ==
    cpPhase = "done" =>
        \A o \in cpOut.rows :
            /\ InScopeRate(cpSeller.rows, CpKey(o), o.seller_rate)
            /\ InScopeRate(cpCategory.rows, CpKey(o), o.category_rate)

\* the side is zero-filled: zero counts, rate 0 and a False flag
ZeroSide(total, normal, rate, good) ==
    total = 0 /\ normal = 0 /\ rate = Num(0, 1) /\ ~good

\* C13: the country x platform result has exactly one row for every
\* (country, platform) of the seller results or of the category results and
\* no other row; a pair missing from one side has zero counts, rate 0 and a
\* False flag for that side; good_to_use = seller_check_good AND
\* category_check_good
C13_UnionOfPairs ==
    cpPhase = "done" =>
        /\ \A r \in cpSeller.rows \cup cpCategory.rows : Cardinality(CpRowsOf(CpKey(r))) = 1
        /\ \A o \in cpOut.rows :
              /\ \E r \in cpSeller.rows \cup cpCategory.rows : CpKey(r) = CpKey(o)
              /\ (~\E r \in cpSeller.rows : CpKey(r) = CpKey(o)) =>
                    ZeroSide(o.seller_total_in_scope, o.seller_normal_all,
                             o.seller_rate, o.seller_check_good)
              /\ (~\E r \in cpCategory.rows : CpKey(r) = CpKey(o)) =>
                    ZeroSide(o.category_total_in_scope, o.category_normal_all,
                             o.category_rate, o.category_check_good)
              /\ o.good_to_use = (o.seller_check_good /\ o.category_check_good)

\* C13 witness: a pair that only the category results have is in the result
\* with a good category side, a zero-filled seller side and good_to_use False
C13_Witness ==
    /\ cpPhase = "done"
    /\ \E o \in cpOut.rows :
          /\ ~\E r \in cpSeller.rows : CpKey(r) = CpKey(o)
          /\ o.category_check_good /\ ~o.seller_check_good /\ ~o.good_to_use

\* the sellers of a (country, platform) in one month of the raw data
SellersIn(k, month) ==
    { r.seller_used_id : r \in { x \in read_raw_all(raw) : CpKey(x) = k /\ x.month = month } }

\* C14: the coverage ratio of a (country, platform) written by build_coverage
\* is the fraction of the sellers of the previous month that are still
\* observed in the latest month; it never exceeds 100% and a seller that
\* first appears in the latest month does not raise it
C14_CoverageIsRetention ==
    vOut.coverage.exists =>
        \A o \in vOut.coverage.rows :
            LET prev_sellers   == SellersIn(CpKey(o), o.month_prev)
                latest_sellers == SellersIn(CpKey(o), o.month_latest)
            IN  prev_sellers # {} =>
                  /\ o.coverage_ratio =
                        format_percent_ratio(safe_ratio(Cardinality(prev_sellers \cap latest_sellers),
                                                        Cardinality(prev_sellers)))
                  /\ o.seller_with_vendor_data_latest <= o.total_seller_scope_prev

\* C15: a run of normalize_raw_vendor_data that finds the inputs the
\* previous run found leaves the canonical table the previous run left, the
\* same rows in the same order: the table of the previous run is cleared,
\* never appended to
C15_RerunIdempotent ==
    [][ (Len(normLog') = Len(normLog) + 1 /\ Len(normLog) >= 1
         /\ normLastInputs = <<rawDir, computedDir>>)
        => normDb' = normDb ]_vars

\* C15 witness: two runs have succeeded on the same inputs (inputs are only
\* added before the first run and still there) and the table holds rows
C15_Witness ==
    /\ normLog = <<"ok", "ok">>
    /\ normLastInputs = <<rawDir, computedDir>>
    /\ Len(normDb.rows) >= 2

\* neither input directory is a directory with a CSV file
NoCsvInput(dirs) ==
    \A i \in 1..2 : ~dirs[i].isdir \/ \A n \in DOMAIN dirs[i].files : dirs[i].files[n] = Absent

\* C16: a run of normalize_raw_vendor_data that finds no CSV file in either
\* input directory raises the no-input error and leaves no canonical table:
\* no store file, neither a new empty one nor the one of a previous run
C16_NoInputNoTable ==
    (normLog # <<>> /\ NoCsvInput(normLastInputs)) =>
        /\ normLog[Len(normLog)] = "no_input"
        /\ ~normDb.exists /\ ~normDb.has_table /\ normDb.rows = <<>>

\* C16 witness: the first run built the table, the inputs were moved away,
\* the second run raised the no-input error and the store is gone
C16_Witness ==
    /\ normLog = <<"ok", "no_input">>
    /\ NoCsvInput(normLastInputs)
    /\ ~normDb.exists

\* the driver has printed the tag for the step
Logged(tag, step_name) == \E i \in DOMAIN pipeLog : pipeLog[i] = [tag |-> tag, step |-> step_name]

\* C17: when a step of run_qaqc_pipeline raises, the driver records the step
\* as skipped or failed and still starts every later step
C17_FailureIsolation ==
    pipeState # "idle" =>
        \A i \in DOMAIN PIPELINE_STEPS :
            /\ Logged("RUN", PIPELINE_STEPS[i])
            /\ StepResult(PIPELINE_STEPS[i], resultFiles).raised =>
                  /\ Logged("SKIPPED", PIPELINE_STEPS[i]) \/ Logged("FAILED", PIPELINE_STEPS[i])
                  /\ pipeState = "finished"

\* the stages the claim C18 names
DeleteFirstStages ==
    {"run_spu_metric_same_month_checks", "run_spu_metric_diff_months_checks",
     "compute_seller_results", "compute_category_results",
     "compute_country_platform_results"}

\* C18: after any run of one of these stages, an early return included, the
\* output path of the stage holds no file written by an earlier run: the
\* path is empty or holds the file this run wrote.
C18_NoStaleOutput ==
    stLast.stage \in DeleteFirstStages =>
        LET f == stFiles[OutputOf[stLast.stage]] IN
        f.exists => f.run = stLast.run

\* C19: a stage that ran while a file it reads from upstream was missing
\* returned without raising and wrote nothing.
C19_MissingUpstreamReturns ==
    (stLast.stage \in StageNames /\ stLast.missing # {}) =>
        /\ stLast.outcome = "returned"
        /\ LET f == stFiles[OutputOf[stLast.stage]] IN ~(f.exists /\ f.run = stLast.run)

CHECK_NAME ==
    [vendor_coverage          |-> "vendor_coverage",
     vendor_seller_trend_mm   |-> "vendor_trend_seller",
     vendor_category_trend_mm |-> "vendor_trend_category",
     market_abnormal          |-> "market_share_pairwise",
     market_trend_mm          |-> "market_share_trend_multi_month"]

\* the in-scope rows of a result CSV
InScopeRows(k) == {r \in dsFiles[k].rows : r.country \in SCOPE_COUNTRIES}

\* some in-scope row of the result CSV k is abnormal
AnyAbnormal(k) ==
    IF k = "vendor_coverage" THEN \E r \in InScopeRows(k) : r.coverage_status = "fail"
    ELSE IF k \in {"vendor_seller_trend_mm", "vendor_category_trend_mm"}
    THEN \E r \in InScopeRows(k) : r.trend_status \in AbnormalTrends
    ELSE IF k = "market_abnormal" THEN InScopeRows(k) # {}
    ELSE \E r \in InScopeRows(k) :
            \/ r.trend_status_revenue \in AbnormalTrends
            \/ r.trend_status_quantity \in AbnormalTrends

AbnormalStatus(k) == IF k = "vendor_coverage" THEN "FAIL" ELSE "WARN"

SummaryRowsOf(k) == {i \in 1..Len(dsOut) : dsOut[i].check_name = CHECK_NAME[k]}

\* C20: once build_decision_summary has run, every check whose result CSV
\* exists has exactly one row in the summary; its status is PASS when no
\* in-scope row of the CSV is abnormal and FAIL (vendor_coverage) or WARN
\* (the other checks) when one is; no other status is emitted.
C20_StatusFold ==
    dsPhase # "idle" =>
        /\ \A k \in SummaryKeys :
              dsFiles[k].exists =>
                  /\ Cardinality(SummaryRowsOf(k)) = 1
                  /\ \A i \in SummaryRowsOf(k) :
                        dsOut[i].status = IF AnyAbnormal(k) THEN AbnormalStatus(k) ELSE "PASS"
        /\ \A i \in 1..Len(dsOut) : dsOut[i].status \in {"PASS", "WARN", "FAIL"}

\* C21: in the decision summary every row of stage vendor-input precedes
\* every row of stage computed-output, whichever result files exist.
C21_VendorBeforeComputed ==
    dsPhase = "done" =>
        \A i, j \in 1..Len(dsOut) :
            (dsOut[i].stage = "vendor-input" /\ dsOut[j].stage = "computed-output") => i < j

C21_Witness ==
    /\ dsPhase = "done"
    /\ \E i, j \in 1..Len(dsOut) :
          dsOut[i].stage = "vendor-input" /\ dsOut[j].stage = "computed-output"

\* the output of the same-month check has a row for (spu, month, metric)
WrittenSameMonth(spu, month, metric) ==
    \E o \in smOut.rows : o.spu_used_id = spu /\ o.month = month /\ o.metric_name = metric

\* C22: after run_spu_metric_same_month_checks the output has a row for
\* (spu_used_id, month, metric) if and only if the group has at least two
\* distinct vendor groups, the minimum and maximum of the metric are
\* defined, the minimum is > 0 and max / min x 100 lies outside the band of
\* the metric; every written row has check_result = fail.
C22_WrittenIffOutsideBand ==
    smPhase = "done" =>
        /\ \A spu \in SmSpus, month \in SmMonths, metric \in METRICS :
              WrittenSameMonth(spu, month, metric)
                  <=> /\ canon.exists
                      /\ DistinctVendorGroups(spu, month) >= 2
                      /\ OutsideBand(spu, month, metric)
        /\ \A o \in smOut.rows : o.check_result = "fail"

\* C22 witness: one group with two vendor groups has a metric that is
\* written, a metric inside its band that is not, and a metric with a
\* minimum <= 0 that is not
C22_Witness ==
    /\ smPhase = "done"
    /\ \E spu \in SmSpus, month \in SmMonths :
          /\ DistinctVendorGroups(spu, month) >= 2
          /\ \E metric \in METRICS : WrittenSameMonth(spu, month, metric)
          /\ \E metric \in METRICS :
                /\ ~WrittenSameMonth(spu, month, metric)
                /\ ~OutsideBand(spu, month, metric)
          /\ \E r \in canon.rows :
                /\ r.spu_used_id = spu /\ r.month = month
                /\ r.asp = Num(0, 1)
                /\ ~WrittenSameMonth(spu, month, "asp")

\* the column a vendor_group value was taken from
VendorGroupSource(vendor_group) ==
    IF vendor_group = "SINGLE_SOURCE" THEN "single_source" ELSE "vendor_id"

\* C23: all canonical rows of one input file get their vendor_group from
\* the same source, however the file is split into read chunks.
C23_SourcePerFile ==
    call.fn = "normalize_file" =>
        \A i, j \in 1..Len(call.ret) :
            VendorGroupSource(call.ret[i].vendor_group)
                = VendorGroupSource(call.ret[j].vendor_group)

\* two means are the same number, or both missing
SameMean(a, b) ==
    IF a.k = "num" /\ b.k = "num" THEN a.n * b.d = b.n * a.d
    ELSE IsNa(a) /\ IsNa(b)

\* C24: the per-key mean of a chunked scan (_accumulate_means with
\* _acc_to_df, and final_asp of aggregate_computed_by_seller) equals the
\* mean over all rows of the key, wherever the chunk boundaries fall.
C24_ChunkedMeanIsMean ==
    call.fn \in {"_acc_to_df", "final_asp"} =>
        \A key \in DOMAIN call.ret :
            SameMean(call.ret[key], group_mean(call.args[1], key))

\* the part of C24 about _accumulate_means and _acc_to_df alone
AccumulatedMeanIsMean ==
    call.fn = "_acc_to_df" =>
        \A key \in DOMAIN call.ret :
            SameMean(call.ret[key], group_mean(call.args[1], key))

\* the distinct SPUs of an entity over all rows of the input
SpusOfEntity(rows, key) ==
    {rows[i].spu_used_id : i \in {j \in DOMAIN rows : rows[j].entity = key /\ IsCompletePair(rows[j])}}

\* the SPUs the rollup named by fn counts as normal: the seller rollup
\* takes every SPU that is not recorded as abnormal, the category rollup
\* the SPUs recorded as normal
CountedNormal(fn, spu_status, p) ==
    IF fn = "_build_seller_spu_counts"
    THEN (p \notin DOMAIN spu_status \/ spu_status[p] = 1)
    ELSE (p \in DOMAIN spu_status /\ spu_status[p] = 1)

\* C25: total_spu and normal_spu of _build_seller_spu_counts and
\* _build_category_spu_counts are numbers of distinct spu_used_id values of
\* the key over the whole input, whatever the chunk size: a pair that
\* occurs several times, in one chunk or in several, is counted once.
C25_DistinctCounts ==
    call.fn \in {"_build_seller_spu_counts", "_build_category_spu_counts"} =>
        LET rows == call.args[1]
            spu_status == call.args[3] IN
        /\ DOMAIN call.ret = {rows[i].entity : i \in {j \in DOMAIN rows : IsCompletePair(rows[j])}}
        /\ \A key \in DOMAIN call.ret :
              /\ call.ret[key].total_spu = Cardinality(SpusOfEntity(rows, key))
              /\ call.ret[key].normal_spu =
                     Cardinality({p \in SpusOfEntity(rows, key) :
                                     CountedNormal(call.fn, spu_status, p)})

\* C25 witness: a pair occurs in two different chunks
C25_Witness ==
    /\ call.fn \in {"_build_seller_spu_counts", "_build_category_spu_counts"}
    /\ LET rows == call.args[1]
           chunksize == call.args[2] IN
       \E i, j \in DOMAIN rows :
          /\ i + chunksize <= j
          /\ rows[i] = rows[j]
          /\ IsCompletePair(rows[i])
          /\ call.ret[rows[i].entity].normal_spu >= 1

\* C27: an SPU without a FAIL record in the SPU-level check outputs, an
\* SPU absent from the spu_status table included, is counted in normal_spu
\* by the seller rollup and by the category rollup alike.
C27_SameVerdictAtBothLevels ==
    call.fn \in {"_build_seller_spu_counts", "_build_category_spu_counts"} =>
        LET rows == call.args[1]
            spu_status == call.args[3] IN
        \A key \in DOMAIN call.ret :
            call.ret[key].normal_spu =
                Cardinality({p \in SpusOfEntity(rows, key) :
                                p \notin DOMAIN spu_status \/ spu_status[p] = 1})

RECURSIVE FreshTable(_, _, _)
\* the table a builder fills from the rows i.. of its input, starting from
\* the table given
FreshTable(which, rows, table) ==
    IF rows = <<>> THEN table
    ELSE FreshTable(which, Tail(rows), tmp_insert(which, table, Head(rows)))

\* C26: whatever runs came before, aborted ones included, a run that
\* completes returns what its own inputs determine, and the temporary
\* store file no longer exists when it has completed.
C26_NoLeakAcrossRuns ==
    tmpRun.state = "done" =>
        /\ tmpRun.ret = tmp_result(tmpRun.which, FreshTable(tmpRun.which, tmpRun.rows, <<>>),
                                   IF tmpRun.which = "_build_maps_from_raw" THEN <<>>
                                   ELSE tmpRun.spu_status)
        /\ ~tmpDb.exists

\* C26 witness: a run has completed that found the file of an aborted run,
\* with rows in it, when it started
C26_Witness ==
    /\ tmpRun.state = "done"
    /\ tmpRun.stale
    /\ tmpRun.rows # <<>>

\* C28: when the seller-level and the category-level check have written
\* their result files, run_check_country_platform_level finds in them every
\* column it reads and completes.
C28_ConsumerReadsWhatProducerWrites ==
    (/\ cpPhase # "input"
     /\ cpSeller.exists
     /\ cpCategory.exists
     /\ cpCategoryColumns = CategoryResultColumns) => cpPhase = "done"

\* the months (parsed) in which the entity of a trend row has raw rows
MonthsObservedOf(level, row) ==
    LET df == IF level = "seller" THEN split_seller_level(read_raw_all(raw))
              ELSE split_category_url_level(read_raw_all(raw))
    IN  { ParseMonth(r.month) :
            r \in { x \in df : LevelKey(level, x) = <<row.country, row.platform, row.entity>> } }

MultiMonthRowAsClaimed(level, row) ==
    LET latest_dt == ParseMonth(row.month_latest) IN
    /\ row.months_observed <= LOOKBACK_MONTHS - 1
    /\ row.trend_status # "insufficient-history"
         => {MinusMonths(latest_dt, 1), MinusMonths(latest_dt, 2)}
              \subseteq MonthsObservedOf(level, row)

\* C29: every row of the multi-month trend outputs has months_observed at
\* most LOOKBACK_MONTHS - 1 = 2, and a row with a status other than
\* insufficient-history belongs to an entity observed in both of the two
\* months before the latest.
C29_MonthsObservedAtMostTwo ==
    vPhase = "done" =>
        /\ \A row \in vOut.seller_trend_mm.rows : MultiMonthRowAsClaimed("seller", row)
        /\ \A row \in vOut.category_trend_mm.rows : MultiMonthRowAsClaimed("category", row)

PairwiseCall == call.fn \in {"build_seller_trend_pairwise", "build_category_trend_pairwise"}

\* C30: every row of build_seller_trend_pairwise and of
\* build_category_trend_pairwise has spu_count_prev >= 1 or
\* spu_count_latest >= 1; no row has the status no-baseline, a row with
\* spu_count_prev = 0 is new-in-latest and a row with spu_count_latest = 0
\* is missing-in-latest.
C30_NoBaselineNeverPairwise ==
    PairwiseCall =>
        \A row \in call.ret :
            /\ row.spu_count_prev >= 1 \/ row.spu_count_latest >= 1
            /\ row.status # "no-baseline"
            /\ row.spu_count_prev = 0 => row.status = "new-in-latest"
            /\ row.spu_count_latest = 0 => row.status = "missing-in-latest"

\* a call whose output has an entity of the latest month only and one of
\* the previous month only, an entity among them whose only identifier is
\* the empty one
C30_Witness ==
    /\ PairwiseCall
    /\ \E row \in call.ret : row.spu_count_prev = 0 /\ row.status = "new-in-latest"
    /\ \E row \in call.ret : row.spu_count_latest = 0 /\ row.status = "missing-in-latest"
    /\ \E row \in call.ret :
          LET level == IF call.fn = "build_seller_trend_pairwise" THEN "seller" ELSE "category"
              mine  == { r \in call.args[1] \cup call.args[2] :
                           LevelKey(level, r) = <<row.country, row.platform, row.entity>> }
          IN  \A r \in mine : r.spu_used_id = ""

====
